---- MODULE Spec2Model ----
(***************************************************************************)
(* A model of the JSX runtime of src/src/jsx-runtime.ts (element factory,  *)
(* hook store, renderer, mount/update controller) together with the demo   *)
(* components that are mounted on it (src/src/main.tsx, counter and todo   *)
(* application of src/unnamed/part_000, src/src/dashboard.tsx).            *)
(*                                                                         *)
(* JavaScript values are tagged records, so that values of different       *)
(* JavaScript types can be compared with = as === compares them.  The      *)
(* module-level variables of jsx-runtime.ts and the host document are      *)
(* gathered in one record (the "world") that every function of the runtime *)
(* takes and returns; the variables of the model are its fields.           *)
(***************************************************************************)
EXTENDS Integers, Sequences, FiniteSets, TLC

VARIABLES
    heap,               \* the arrays allocated by useState, by reference
    componentStates,    \* Map: component identity -> reference of its slot array
    currentComponent,   \* render cursor: component identity
    stateIndex,         \* render cursor: slot index
    rootVNode,          \* root binding: descriptor
    rootContainer,      \* root binding: container
    renderedNode,       \* root binding: last-produced node
    globalContainer,    \* container recorded by setGlobalRender
    globalVNode,        \* descriptor recorded by setGlobalRender
    dom,                \* host document: the child list of every container
    hooks,              \* every (getter, setter) pair useState has returned
    timers,             \* pending setTimeout callbacks of the Dashboard
    data,               \* DataService.data of the dataService singleton
    program,            \* the program that drives the runtime
    call                \* what the last call into the runtime did

vars == <<heap, componentStates, currentComponent, stateIndex, rootVNode,
          rootContainer, renderedNode, globalContainer, globalVNode, dom,
          hooks, timers, data, program, call>>

(***************************************************************************)
(* Bounds                                                                  *)
(***************************************************************************)
\* largest count the environment passes to the Counter's setter
MaxCount == 1
\* largest count the Counter's increment reaches on the page, and largest
\* distance below zero its decrement reaches
MaxUp == 3
MaxDown == 1
\* largest number of top-level nodes in the document when mount is called
MaxNodes == 1
\* the largest slot index a useState call outside a render may find
MaxIndex == 3
\* the largest number of children createElement is called with
MaxArgs == 3
\* most calls of DataService.simulateUpdate that change a chart
MaxUpdates == 6
\* most timers of the Dashboard pending at once
MaxTimers == 2
\* largest update count the timers of the Dashboard count up to
MaxFirings == 1
\* most todos in the list of the TodoApp
MaxTodos == 2

(***************************************************************************)
(* JavaScript values                                                       *)
(***************************************************************************)
Undefined == [t |-> "undefined"]
Null == [t |-> "null"]
Num(n) == [t |-> "number", n |-> n]
Str(s) == [t |-> "string", s |-> s]
Bool(b) == [t |-> "boolean", b |-> b]
\* a closure: the function's name in the source and what it captured
Fn(name, env) == [t |-> "function", name |-> name, env |-> env]
\* an object literal / an array literal
Obj(fields) == [t |-> "object", fields |-> fields]
Arr(items) == [t |-> "array", items |-> items]

EmptyObject == <<>>

\* ToBoolean
Truthy(v) ==
    CASE v.t = "undefined" -> FALSE
      [] v.t = "null" -> FALSE
      [] v.t = "boolean" -> v.b
      [] v.t = "number" -> v.n # 0
      [] v.t = "string" -> v.s # ""
      [] OTHER -> TRUE

\* a || b
OrElse(a, b) == IF Truthy(a) THEN a ELSE b

\* String(v) and `${v}`
ToStr(v) ==
    CASE v.t = "undefined" -> "undefined"
      [] v.t = "null" -> "null"
      [] v.t = "boolean" -> IF v.b THEN "true" ELSE "false"
      [] v.t = "number" -> ToString(v.n)
      [] v.t = "string" -> v.s
      [] v.t = "function" -> "function " \o v.name
      [] v.t = "array" -> "[array]"
      [] OTHER -> "[object Object]"

\* obj[key] on a property bag
PropGet(props, key) == IF key \in DOMAIN props THEN props[key] ELSE Undefined

\* a[i] and a[i] = v on a JavaScript array (0-based; holes read as undefined)
ArrGet(a, i) == IF i + 1 \in 1..Len(a) THEN a[i + 1] ELSE Undefined
ArrSet(a, i, v) ==
    [k \in 1..(IF i + 1 > Len(a) THEN i + 1 ELSE Len(a)) |->
        IF k = i + 1 THEN v ELSE IF k <= Len(a) THEN a[k] ELSE Undefined]

\* Map.set
MapSet(m, k, v) == [x \in (DOMAIN m) \cup {k} |-> IF x = k THEN v ELSE m[x]]

LowerChar(c) ==
    CASE c = "A" -> "a" [] c = "B" -> "b" [] c = "C" -> "c" [] c = "D" -> "d"
      [] c = "E" -> "e" [] c = "F" -> "f" [] c = "G" -> "g" [] c = "H" -> "h"
      [] c = "I" -> "i" [] c = "J" -> "j" [] c = "K" -> "k" [] c = "L" -> "l"
      [] c = "M" -> "m" [] c = "N" -> "n" [] c = "O" -> "o" [] c = "P" -> "p"
      [] c = "Q" -> "q" [] c = "R" -> "r" [] c = "S" -> "s" [] c = "T" -> "t"
      [] c = "U" -> "u" [] c = "V" -> "v" [] c = "W" -> "w" [] c = "X" -> "x"
      [] c = "Y" -> "y" [] c = "Z" -> "z" [] OTHER -> c

RECURSIVE ToLowerCase(_)
ToLowerCase(str) ==
    IF Len(str) = 0 THEN ""
    ELSE LowerChar(SubSeq(str, 1, 1)) \o ToLowerCase(SubSeq(str, 2, Len(str)))

StartsWith(str, prefix) ==
    Len(str) >= Len(prefix) /\ SubSeq(str, 1, Len(prefix)) = prefix

(***************************************************************************)
(* PART 2: the element factory                                             *)
(***************************************************************************)
RECURSIVE Flat(_)
\* Array.prototype.flat(): one level
Flat(children) ==
    IF Len(children) = 0 THEN <<>>
    ELSE (IF Head(children).t = "array" THEN Head(children).items
          ELSE <<Head(children)>>) \o Flat(Tail(children))

\* FilterChildrenTruthy: the filter keeps the truthy children only
FilterChildrenTruthy(children) == SelectSeq(children, Truthy)

RECURSIVE FilterChildren(_)
\* .filter((child) => child !== null && child !== undefined)
FilterChildren(children) ==
    IF Len(children) = 0 THEN <<>>
    ELSE (IF Head(children) # Null /\ Head(children) # Undefined
          THEN <<Head(children)>> ELSE <<>>) \o FilterChildren(Tail(children))

\* a VNode is itself a tagged value, so that it can be a child
createElement(type, props, children) ==
    [t |-> "vnode",
     type |-> type,
     props |-> IF props = Null \/ props = Undefined THEN EmptyObject ELSE props,
     children |-> FilterChildren(Flat(children))]

createFragment(props, children) ==
    createElement("fragment",
                  IF props = Null \/ props = Undefined THEN EmptyObject ELSE props,
                  children)

(***************************************************************************)
(* PART 3: state management                                                *)
(***************************************************************************)
\* the component functions of the repository (their identity is their name)
Components == {"App", "Counter", "Button", "TodoApp", "AddTodoForm", "TodoItem",
               "Dashboard", "StyledButton", "Chart", "Card", "Select", "Eager",
               "Container", "Modal"}
\* the value null of currentComponent
NoComponent == "null"
\* the value null of rootContainer / globalContainer / parentNode
NoContainer == "null"

\* the module-level state and the document, as one value
World ==
    [heap |-> heap, componentStates |-> componentStates,
     currentComponent |-> currentComponent, stateIndex |-> stateIndex,
     rootVNode |-> rootVNode, rootContainer |-> rootContainer,
     renderedNode |-> renderedNode, globalContainer |-> globalContainer,
     globalVNode |-> globalVNode, dom |-> dom, hooks |-> hooks,
     timers |-> timers, data |-> data, call |-> call]

\* getter: () => states[index]
getter(hook, w) == ArrGet(w.heap[hook.states], hook.index)

\* ensureStatesFresh: every useState call gives the component a new array,
\* a copy of the one it had
ensureStatesFresh(w) ==
    [w EXCEPT !.heap = Append(@, IF w.currentComponent \in DOMAIN w.componentStates
                                 THEN @[w.componentStates[w.currentComponent]]
                                 ELSE <<>>),
              !.componentStates = MapSet(@, w.currentComponent, Len(w.heap) + 1)]

\* if (!componentStates.has(component)) componentStates.set(component, [])
ensureStates(w) ==
    IF w.currentComponent \notin DOMAIN w.componentStates
    THEN [w EXCEPT !.heap = Append(@, <<>>),
                   !.componentStates =
                        MapSet(@, w.currentComponent, Len(w.heap) + 1)]
    ELSE w

\* initSlotAlways: every useState call stores its initial value
initSlotAlways(initialValue, w) ==
    [w EXCEPT !.heap[w.componentStates[w.currentComponent]] =
                    ArrSet(@, w.stateIndex, initialValue)]

\* if (states[index] === undefined) states[index] = initialValue
initSlot(initialValue, w) ==
    LET states == w.componentStates[w.currentComponent]
    IN  IF ArrGet(w.heap[states], w.stateIndex) = Undefined
        THEN [w EXCEPT !.heap[states] = ArrSet(@, w.stateIndex, initialValue)]
        ELSE w

\* the order of the steps of a call: each step is noted with the number of
\* render passes under way when it is taken
Log(ev, w) ==
    [w EXCEPT !.call.trace = Append(@, [ev |-> ev, depth |-> w.call.depth])]
\* a render pass starts / has put its node in place
PassStarts(w) == Log("pass", [w EXCEPT !.call.depth = @ + 1])
PassDone(ev, w) == [Log(ev, w) EXCEPT !.call.depth = @ - 1]

\* the getter and the setter close over the component, its array and the
\* index; stateIndex++
handOut(hook, w) ==
    [getter |-> hook, setter |-> hook,
     w |-> Log("useState",
               [w EXCEPT !.stateIndex = @ + 1, !.hooks = @ \cup {hook}])]

closure(w) ==
    [component |-> w.currentComponent,
     states |-> w.componentStates[w.currentComponent],
     index |-> w.stateIndex]

useStateIn(initialValue, w) == handOut(closure(w), initSlot(initialValue, w))

useState(initialValue, w) == useStateIn(initialValue, ensureStates(w))

(***************************************************************************)
(* The components.  A component function takes its props and the world and *)
(* returns the descriptor it builds and the world it leaves.  Emoji are    *)
(* left out of the text literals.                                          *)
(***************************************************************************)
\* an exception leaves the function that is running
Throw(w) == [w EXCEPT !.call.thrown = TRUE]

\* Button of the counter module
Button(props, w) ==
    LET onClick == PropGet(props, "onClick")
        className == IF PropGet(props, "className") = Undefined THEN Str("")
                     ELSE PropGet(props, "className")
        disabled == IF PropGet(props, "disabled") = Undefined THEN Bool(FALSE)
                    ELSE PropGet(props, "disabled")
        children == PropGet(props, "children")
    IN  [result |-> createElement("button",
                        [onClick |-> onClick,
                         className |-> Str("btn " \o ToStr(className)),
                         disabled |-> disabled],
                        <<children>>),
         w |-> w]

Counter(props, w) ==
    LET initialCount == OrElse(PropGet(props, "initialCount"), Num(0))
        u == useState(initialCount, w)
        getCount == u.getter
        setCount == u.setter
        env == [getCount |-> getCount, setCount |-> setCount,
                initialCount |-> initialCount]
    IN  [result |->
            createElement("div",
                [className |-> Str("counter"),
                 onKeyDown |-> Fn("handleKeyDown", env),
                 tabIndex |-> Num(0),
                 style |-> Obj([outline |-> Str("none")])],
                <<createElement("h2", Null,
                      <<Str("Count: " \o ToStr(getter(getCount, u.w)))>>),
                  createElement("p",
                      [style |-> Obj([color |-> Str("#7f8c8d"),
                                      fontSize |-> Str("0.9rem"),
                                      marginBottom |-> Str("20px")])],
                      <<Str("Shortcuts: up/down or +/- or 0/r to reset")>>),
                  createElement("div", [className |-> Str("counter-buttons")],
                      <<createElement("Button",
                            [onClick |-> Fn("increment", env),
                             className |-> Str("btn-primary")],
                            <<Str("Increment")>>),
                        createElement("Button",
                            [onClick |-> Fn("decrement", env),
                             className |-> Str("btn-secondary")],
                            <<Str("Decrement")>>),
                        createElement("Button",
                            [onClick |-> Fn("reset", env),
                             className |-> Str("btn-danger")],
                            <<Str("Reset")>>)>>)>>),
         w |-> u.w]

\* true when sub occurs in str (String.prototype.includes)
Includes(str, sub) ==
    \E i \in 1..(Len(str) - Len(sub) + 1) : SubSeq(str, i, i + Len(sub) - 1) = sub

RECURSIVE FilterSeq(_, _)
\* Array.prototype.filter, the predicate given as the set of accepted items
FilterSeq(items, accepted) ==
    IF Len(items) = 0 THEN <<>>
    ELSE (IF Head(items) \in accepted THEN <<Head(items)>> ELSE <<>>)
         \o FilterSeq(Tail(items), accepted)

SeqRange(items) == {items[i] : i \in 1..Len(items)}

TodoItem(props, w) ==
    LET todo == PropGet(props, "todo").fields
        onToggle == PropGet(props, "onToggle")
        onDelete == PropGet(props, "onDelete")
    IN  [result |->
            createElement("li", [className |-> Str("todo-item")],
                <<createElement("input",
                      [type |-> Str("checkbox"),
                       checked |-> todo.completed,
                       onChange |-> Fn("onToggle(todo.id)",
                                       [f |-> onToggle, id |-> todo.id]),
                       className |-> Str("todo-checkbox")],
                      <<>>),
                  createElement("span",
                      [className |-> Str("todo-text " \o
                            (IF Truthy(todo.completed) THEN "completed" ELSE "")),
                       style |-> IF Truthy(todo.completed)
                                 THEN Obj([textDecoration |-> Str("line-through"),
                                           color |-> Str("#999")])
                                 ELSE Obj(EmptyObject)],
                      <<todo.text>>),
                  createElement("button",
                      [onClick |-> Fn("onDelete(todo.id)",
                                      [f |-> onDelete, id |-> todo.id]),
                       className |-> Str("btn-delete")],
                      <<Str("Delete")>>)>>),
         w |-> w]

AddTodoForm(props, w) ==
    LET onAdd == PropGet(props, "onAdd")
        u == useState(Str(""), w)
        getInput == u.getter
        setInput == u.setter
    IN  [result |->
            createElement("form",
                [onSubmit |-> Fn("handleSubmit",
                                 [getInput |-> getInput, setInput |-> setInput,
                                  onAdd |-> onAdd]),
                 className |-> Str("add-todo-form")],
                <<createElement("input",
                      [type |-> Str("text"),
                       value |-> getter(getInput, u.w),
                       onChange |-> Fn("setInput(input.value)",
                                       [setInput |-> setInput]),
                       placeholder |-> Str("Add a new todo..."),
                       className |-> Str("todo-input")],
                      <<>>),
                  createElement("button",
                      [type |-> Str("submit"),
                       className |-> Str("btn btn-primary")],
                      <<Str("Add Todo")>>)>>),
         w |-> u.w]

\* the body of TodoApp below its three useState calls
TodoAppView(u1, u2, u3) ==
    LET w3 == u3.w
        getTodos == u1.getter
        setTodos == u1.setter
        getFilter == u2.getter
        setFilter == u2.setter
        getSearch == u3.getter
        setSearch == u3.setter
        env == [getTodos |-> getTodos, setTodos |-> setTodos]
        todos == getter(getTodos, w3).items
        completed == {t \in SeqRange(todos) : Truthy(t.fields.completed)}
        byFilter ==
            IF getter(getFilter, w3) = Str("active")
            THEN FilterSeq(todos, SeqRange(todos) \ completed)
            ELSE IF getter(getFilter, w3) = Str("completed")
            THEN FilterSeq(todos, completed)
            ELSE todos
        filteredTodos ==
            IF Truthy(getter(getSearch, w3))
            THEN FilterSeq(byFilter,
                    {t \in SeqRange(byFilter) :
                        Includes(ToLowerCase(ToStr(t.fields.text)),
                                 ToLowerCase(ToStr(getter(getSearch, w3))))})
            ELSE byFilter
        totalCount == Len(todos)
        completedCount == Len(FilterSeq(todos, completed))
        activeCount == totalCount - completedCount
        filterButton(value, label) ==
            createElement("button",
                [onClick |-> Fn("setFilter", [setFilter |-> setFilter,
                                              arg |-> Str(value)]),
                 className |-> Str("btn " \o
                    (IF getter(getFilter, w3) = Str(value)
                     THEN "btn-primary" ELSE "btn-secondary")),
                 style |-> Obj([padding |-> Str("8px 16px")])],
                <<Str(label)>>)
    IN  [result |->
            createElement("div", [className |-> Str("todo-app")],
                <<createElement("h1", Null, <<Str("My Todo App")>>),
                  createElement("AddTodoForm",
                      [onAdd |-> Fn("addTodo", env)], <<>>),
                  createElement("div",
                      [style |-> Obj([marginBottom |-> Str("20px")])],
                      <<createElement("input",
                            [type |-> Str("text"),
                             value |-> getter(getSearch, w3),
                             onChange |-> Fn("setSearch(input.value)",
                                             [setSearch |-> setSearch]),
                             placeholder |-> Str("Search todos..."),
                             className |-> Str("todo-input"),
                             style |-> Obj([marginBottom |-> Str("10px")])],
                            <<>>)>>),
                  createElement("div",
                      [className |-> Str("todo-stats"),
                       style |-> Obj([display |-> Str("flex"),
                                      justifyContent |-> Str("space-between"),
                                      alignItems |-> Str("center"),
                                      marginBottom |-> Str("15px")])],
                      <<createElement("div", Null,
                            <<Str("Total: " \o ToString(totalCount)
                                  \o " | Done: " \o ToString(completedCount)
                                  \o " | Active: " \o ToString(activeCount))>>)>>
                      \o (IF completedCount > 0
                          THEN <<createElement("button",
                                    [onClick |-> Fn("clearCompleted", env),
                                     className |-> Str("btn btn-secondary"),
                                     style |-> Obj([padding |-> Str("5px 10px"),
                                                    fontSize |-> Str("0.9rem")])],
                                    <<Str("Clear Done")>>)>>
                          ELSE <<>>)),
                  createElement("div",
                      [style |-> Obj([display |-> Str("flex"),
                                      gap |-> Str("10px"),
                                      marginBottom |-> Str("20px")])],
                      <<filterButton("all", "All"),
                        filterButton("active", "Active"),
                        filterButton("completed", "Done")>>),
                  createElement("ul", [className |-> Str("todo-list")],
                      IF Len(filteredTodos) > 0
                      THEN [i \in 1..Len(filteredTodos) |->
                              createElement("TodoItem",
                                  [key |-> filteredTodos[i].fields.id,
                                   todo |-> filteredTodos[i],
                                   onToggle |-> Fn("toggleTodo", env),
                                   onDelete |-> Fn("deleteTodo", env)],
                                  <<>>)]
                      ELSE <<createElement("li",
                                [style |-> Obj([textAlign |-> Str("center"),
                                                padding |-> Str("20px"),
                                                color |-> Str("#999")])],
                                <<Str(IF Truthy(getter(getSearch, w3))
                                      THEN "No todos match your search"
                                      ELSE IF getter(getFilter, w3) = Str("active")
                                      THEN "All todos completed!"
                                      ELSE "No todos yet. Add one to get started!")>>)>>)
                >>),
         w |-> w3]

TodoApp(props, w) ==
    LET u1 == useState(Arr(<<>>), w)
        u2 == useState(Str("all"), u1.w)
        u3 == useState(Str(""), u2.w)
    IN  TodoAppView(u1, u2, u3)

(***************************************************************************)
(* The data service and the component library (src/src/data-service.ts),   *)
(* the chart (src/src/chart.tsx) and the dashboard (src/src/dashboard.tsx) *)
(***************************************************************************)
Point(label, value) == [label |-> label, value |-> value]

\* DataService.data after the constructor
generateMockData ==
    <<[title |-> "Monthly Sales", type |-> "bar", category |-> "sales",
       data |-> <<Point("Jan", 65), Point("Feb", 59), Point("Mar", 80),
                  Point("Apr", 81), Point("May", 56), Point("Jun", 55)>>],
      [title |-> "Weekly Visitors", type |-> "line", category |-> "visitors",
       data |-> <<Point("Mon", 100), Point("Tue", 120), Point("Wed", 150),
                  Point("Thu", 130), Point("Fri", 180), Point("Sat", 160),
                  Point("Sun", 110)>>],
      [title |-> "Market Share", type |-> "pie", category |-> "market",
       data |-> <<Point("Product A", 30), Point("Product B", 25),
                  Point("Product C", 20), Point("Product D", 15),
                  Point("Others", 10)>>]>>

getAllData(w) == w.data

RECURSIVE SumValues(_)
SumValues(points) ==
    IF Len(points) = 0 THEN 0 ELSE Head(points).value + SumValues(Tail(points))

RECURSIVE FlatMapPoints(_)
FlatMapPoints(charts) ==
    IF Len(charts) = 0 THEN <<>>
    ELSE Head(charts).data \o FlatMapPoints(Tail(charts))

\* averageValue is kept in hundredths: Math.round(averageValue * 100) / 100
getSummary(w) ==
    LET allValues == FlatMapPoints(getAllData(w))
        totalValue == SumValues(allValues)
    IN  [totalValue |-> totalValue,
         averageHundredths
         |-> IF Len(allValues) > 0
             THEN (2 * 100 * totalValue + Len(allValues)) \div (2 * Len(allValues))
             ELSE 0,
         itemCount |-> Len(getAllData(w))]

\* the position in DataService.data of the first chart of a category, 0 for
\* undefined: this.data.find(d => d.category === category)
getDataByCategory(category, w) ==
    LET found == {i \in 1..Len(w.data) : w.data[i].category = category}
    IN  IF found = {} THEN 0
        ELSE CHOOSE i \in found : \A j \in found : i <= j

\* Math.random() returns random / RandomUnits, a number of [0, 1)
RandomUnits == 30
Randoms == {0, 29}

\* Math.round(Math.max(0, value + (Math.random() - 0.5) * variation)), the
\* sum taken exactly in units of 1 / RandomUnits
\* VariedFree: the sum is not held at zero
VariedFree(value, random, variation) ==
    LET units == RandomUnits * value + (random - RandomUnits \div 2) * variation
    IN  (2 * units + RandomUnits) \div (2 * RandomUnits)

Varied(value, random, variation) ==
    LET units == RandomUnits * value + (random - RandomUnits \div 2) * variation
        newValue == IF units < 0 THEN 0 ELSE units
    IN  (2 * newValue + RandomUnits) \div (2 * RandomUnits)

\* the point simulateUpdate makes after lastPoint; timestamp is new Date()
NewPoint(lastPoint, random, variation) ==
    [label |-> lastPoint.label \o "+",
     value |-> Varied(lastPoint.value, random, variation),
     timestamp |-> "now"]

\* DataService.simulateUpdate(category, variation), Math.random() returning
\* random / RandomUnits; result is the new point or null
simulateUpdate(category, variation, random, w) ==
    LET at == getDataByCategory(category, w)
        points == w.data[at].data
        newPoint == NewPoint(points[Len(points)], random, variation)
        kept == IF Len(points) >= 10 THEN Tail(points) ELSE points
    IN  IF at = 0 \/ Len(points) = 0
        THEN [result |-> Null, w |-> w]
        ELSE [result |-> Obj(newPoint),
              w |-> [w EXCEPT !.data[at].data = Append(kept, newPoint)]]

\* three decimal digits, zero padded
Pad3(n) == IF n < 10 THEN "00" \o ToString(n)
           ELSE IF n < 100 THEN "0" \o ToString(n) ELSE ToString(n)

\* Number.prototype.toLocaleString (en-US) of an integer below a million
LocaleInt(n) ==
    IF n < 1000 THEN ToString(n)
    ELSE ToString(n \div 1000) \o "," \o Pad3(n % 1000)

\* toLocaleString of a number given in hundredths
LocaleHundredths(h) ==
    LET frac == h % 100
    IN  LocaleInt(h \div 100) \o
        (IF frac = 0 THEN ""
         ELSE IF frac % 10 = 0 THEN "." \o ToString(frac \div 10)
         ELSE IF frac < 10 THEN ".0" \o ToString(frac)
         ELSE "." \o ToString(frac))

\* `cond && value` inside a children list
AndThen(cond, value) == IF Truthy(cond) THEN value ELSE cond

\* Array.isArray(children) ? children : (children !== undefined ? [children] : [])
ChildrenOf(children) ==
    IF children.t = "array" THEN children.items
    ELSE IF children # Undefined THEN <<children>> ELSE <<>>

Card(props, w) ==
    LET title == PropGet(props, "title")
        className == IF PropGet(props, "className") = Undefined THEN Str("")
                     ELSE PropGet(props, "className")
        onClick == PropGet(props, "onClick")
        children == PropGet(props, "children")
    IN  [result |->
            createElement("div",
                [className |-> Str("card " \o ToStr(className)),
                 onClick |-> onClick],
                <<AndThen(title,
                      createElement("div", [className |-> Str("card-header")],
                          <<createElement("h3", [className |-> Str("card-title")],
                                <<title>>)>>)),
                  createElement("div", [className |-> Str("card-body")],
                      ChildrenOf(children))>>),
         w |-> w]

Modal(props, w) ==
    LET isOpen == PropGet(props, "isOpen")
        onClose == PropGet(props, "onClose")
        title == PropGet(props, "title")
        className == IF PropGet(props, "className") = Undefined THEN Str("")
                     ELSE PropGet(props, "className")
        children == PropGet(props, "children")
    IN  IF ~Truthy(isOpen)
        \* if (!isOpen) return null
        THEN [result |-> Null, w |-> w]
        ELSE
        [result |->
            createElement("div", [className |-> Str("modal-overlay")],
                <<createElement("div",
                      [className |-> Str("modal " \o ToStr(className)),
                       onClick |-> Fn("stopPropagation", <<>>)],
                      <<createElement("div", [className |-> Str("modal-header")],
                            <<AndThen(title,
                                  createElement("h2",
                                      [className |-> Str("modal-title")],
                                      <<title>>)),
                              createElement("button",
                                  [className |-> Str("modal-close"),
                                   onClick |-> onClose,
                                   children |-> Str("x")],
                                  <<>>)>>),
                        createElement("div", [className |-> Str("modal-body")],
                            ChildrenOf(children)),
                        createElement("div", [className |-> Str("modal-footer")],
                            <<createElement("button",
                                  [className |-> Str("btn btn-primary"),
                                   onClick |-> onClose],
                                  <<Str("Close")>>)>>)>>)>>),
         w |-> w]

StyledButton(props, w) ==
    LET Default(key, d) == IF PropGet(props, key) = Undefined THEN d
                           ELSE PropGet(props, key)
        onClick == PropGet(props, "onClick")
        className == Default("className", Str(""))
        disabled == Default("disabled", Bool(FALSE))
        variant == Default("variant", Str("primary"))
        children == PropGet(props, "children")
    IN  [result |->
            createElement("button",
                [onClick |-> onClick,
                 className |-> Str("btn btn-" \o ToStr(variant) \o " "
                                   \o ToStr(className)),
                 disabled |-> disabled],
                <<children>>),
         w |-> w]

Select(props, w) ==
    LET Default(key, d) == IF PropGet(props, key) = Undefined THEN d
                           ELSE PropGet(props, key)
        value == Default("value", Str(""))
        onChange == PropGet(props, "onChange")
        options == PropGet(props, "options")
        placeholder == Default("placeholder", Str("Select an option"))
        className == Default("className", Str(""))
        name == PropGet(props, "name")
    IN  IF Truthy(options) /\ options.t # "array"
        \* options.map is not a function
        THEN [result |-> Undefined, w |-> Throw(w)]
        ELSE
        [result |->
            createElement("select",
                [value |-> OrElse(value, Str("")),
                 onChange |-> onChange,
                 className |-> Str("select " \o ToStr(className)),
                 name |-> name],
                <<AndThen(placeholder,
                      createElement("option", [value |-> Str("")],
                                    <<placeholder>>))>>
                \o (IF Truthy(options)
                    THEN [i \in 1..Len(options.items) |->
                            createElement("option",
                                [value |-> options.items[i].fields.value],
                                <<options.items[i].fields.label>>)]
                    ELSE <<>>)),
         w |-> w]

\* the canvas id is chart- followed by random characters; the model writes
\* one id for all of them
Chart(props, w) ==
    LET Default(key, d) == IF PropGet(props, key) = Undefined THEN d
                           ELSE PropGet(props, key)
        chartData == PropGet(props, "data")
        width == Default("width", Num(400))
        height == Default("height", Num(300))
        className == Default("className", Str(""))
        canvasId == "chart-random"
    IN  IF chartData \in {Undefined, Null}
        \* data.title of a missing data prop throws
        THEN [result |-> Undefined, w |-> Throw(w)]
        ELSE
        [result |->
            createElement("div",
                [className |-> Str("chart-container " \o ToStr(className)),
                 _onMounted |-> Fn("drawOnMount",
                                   [canvasId |-> canvasId, data |-> chartData,
                                    width |-> width, height |-> height])],
                <<createElement("h3", [className |-> Str("chart-title")],
                      <<Str(chartData.fields.title)>>),
                  createElement("canvas",
                      [id |-> Str(canvasId), width |-> width,
                       height |-> height,
                       className |-> Str("chart-canvas")],
                      <<>>)>>),
         w |-> w]

\* the body of Dashboard below its three useState calls
DashboardView(u1, u2, u3) ==
    LET getChartType == u1.getter
        setChartType == u1.setter
        getAutoUpdate == u2.getter
        setAutoUpdate == u2.setter
        getUpdateCount == u3.getter
        setUpdateCount == u3.setter
        \* if (getAutoUpdate()) setTimeout(..., 3000)
        w4 == IF Truthy(getter(getAutoUpdate, u3.w))
              THEN [u3.w EXCEPT !.timers = @ + 1]
              ELSE u3.w
        autoUpdate == getter(getAutoUpdate, w4)
        allData == getAllData(w4)
        currentChartType == getter(getChartType, w4)
        displayData ==
            IF currentChartType = Str("all") THEN allData
            ELSE FilterSeq(allData,
                    {d \in SeqRange(allData) : Str(d.type) = currentChartType})
        summary == getSummary(w4)
        option(value, label) == Obj([value |-> Str(value), label |-> Str(label)])
    IN  [result |->
            createElement("div", [className |-> Str("dashboard")],
                <<createElement("header", [className |-> Str("dashboard-header")],
                      <<createElement("h1", Null, <<Str("Analytics Dashboard")>>),
                        createElement("p", [className |-> Str("subtitle")],
                            <<Str("Real-time data visualization"
                                  \o (IF Truthy(autoUpdate) THEN " Live" ELSE ""))>>)>>),
                  createElement("div", [className |-> Str("dashboard-stats")],
                      <<createElement("Card",
                            [title |-> Str("Total Value"),
                             className |-> Str("stat-card")],
                            <<createElement("div", [className |-> Str("stat-value")],
                                <<Str("$" \o LocaleInt(summary.totalValue))>>)>>),
                        createElement("Card",
                            [title |-> Str("Average Value"),
                             className |-> Str("stat-card")],
                            <<createElement("div", [className |-> Str("stat-value")],
                                <<Str("$" \o LocaleHundredths(summary.averageHundredths))>>)>>),
                        createElement("Card",
                            [title |-> Str("Charts Count"),
                             className |-> Str("stat-card")],
                            <<createElement("div", [className |-> Str("stat-value")],
                                <<Str(ToString(summary.itemCount) \o " charts")>>)>>)>>
                      \o (IF Truthy(autoUpdate)
                          THEN <<createElement("Card",
                                    [title |-> Str("Updates"),
                                     className |-> Str("stat-card")],
                                    <<createElement("div",
                                        [className |-> Str("stat-value")],
                                        <<Str(ToStr(getter(getUpdateCount, w4))
                                              \o " updates")>>)>>)>>
                          ELSE <<>>)),
                  createElement("div", [className |-> Str("dashboard-controls")],
                      <<createElement("div", [className |-> Str("control-group")],
                            <<createElement("label", Null, <<Str("Chart Type:")>>),
                              createElement("Select",
                                  [value |-> currentChartType,
                                   onChange |-> Fn("setChartType(target.value)",
                                                   [setChartType |-> setChartType]),
                                   options |-> Arr(<<option("all", "All Charts"),
                                                     option("bar", "Bar Charts"),
                                                     option("line", "Line Charts"),
                                                     option("pie", "Pie Charts")>>)],
                                  <<>>)>>),
                        createElement("div", [className |-> Str("control-group")],
                            <<createElement("StyledButton",
                                  [variant |-> Str(IF Truthy(autoUpdate)
                                                   THEN "danger" ELSE "primary"),
                                   onClick |-> Fn("setAutoUpdate(!getAutoUpdate())",
                                                  [getAutoUpdate |-> getAutoUpdate,
                                                   setAutoUpdate |-> setAutoUpdate])],
                                  <<Str(IF Truthy(autoUpdate)
                                        THEN "Stop Live Update"
                                        ELSE "Start Live Update")>>)>>)>>),
                  createElement("div", [className |-> Str("charts-grid")],
                      IF Len(displayData) > 0
                      THEN [i \in 1..Len(displayData) |->
                              createElement("Chart",
                                  [key |-> Str(displayData[i].category),
                                   data |-> Obj(displayData[i]),
                                   width |-> Num(500),
                                   height |-> Num(300),
                                   className |-> Str("chart-item")],
                                  <<>>)]
                      ELSE <<createElement("p", Null,
                                           <<Str("No data to display")>>)>>)>>),
         w |-> w4]

Dashboard(props, w) ==
    LET u1 == useState(Str("all"), w)
        u2 == useState(Bool(FALSE), u1.w)
        u3 == useState(Num(0), u2.w)
    IN  DashboardView(u1, u2, u3)

\* the component of test 3.2
Container(props, w) ==
    [result |-> createElement("div", [className |-> Str("container")],
                              <<PropGet(props, "children")>>),
     w |-> w]

RECURSIVE setter(_, _, _)

\* a client component that breaks the rules of hooks: it calls a setter in
\* its body, between two useState calls
\*   const [getA, setA] = useState(0); if (getA() === 0) setA(1);
\*   const [getB, setB] = useState('b'); return <p>{getA()}{getB()}</p>
EagerView(getA, u2) ==
    [result |-> createElement("p", Null,
                    <<Str(ToStr(getter(getA, u2.w))),
                      Str(ToStr(getter(u2.getter, u2.w)))>>),
     w |-> u2.w]

EagerRest(getA, w) == EagerView(getA, useState(Str("b"), w))

EagerSet(u1) ==
    EagerRest(u1.getter,
              IF getter(u1.getter, u1.w) = Num(0)
              THEN setter(u1.setter, Num(1), u1.w)
              ELSE u1.w)

Eager(props, w) == EagerSet(useState(Num(0), w))

\* the navigation application of src/src/main.tsx
App(props, w) ==
    LET u == useState(Str("dashboard"), w)
        getActiveTab == u.getter
        setActiveTab == u.setter
        activeTab == getter(getActiveTab, u.w)
        renderContent ==
            CASE activeTab = Str("counter") ->
                    createElement("Counter", [initialCount |-> Num(0)], <<>>)
              [] activeTab = Str("todos") ->
                    createElement("TodoApp", EmptyObject, <<>>)
              [] OTHER -> createElement("Dashboard", EmptyObject, <<>>)
        navButton(tab, label) ==
            createElement("button",
                [style |-> Obj([padding |-> Str("10px 20px"),
                                backgroundColor |->
                                    Str(IF activeTab = Str(tab)
                                        THEN "#3498db" ELSE "#34495e"),
                                color |-> Str("white"),
                                border |-> Str("none"),
                                borderRadius |-> Str("4px"),
                                cursor |-> Str("pointer"),
                                fontSize |-> Str("1rem")]),
                 onClick |-> Fn("setActiveTab",
                                [setActiveTab |-> setActiveTab, arg |-> Str(tab)])],
                <<Str(label)>>)
    IN  [result |->
            createElement("div", [className |-> Str("app-wrapper")],
                <<createElement("nav",
                      [className |-> Str("app-nav"),
                       style |-> Obj([backgroundColor |-> Str("#2c3e50"),
                                      padding |-> Str("20px"),
                                      color |-> Str("white")])],
                      <<createElement("div",
                            [className |-> Str("nav-content"),
                             style |-> Obj([maxWidth |-> Str("1200px"),
                                            margin |-> Str("0 auto")])],
                            <<createElement("div",
                                  [className |-> Str("nav-buttons"),
                                   style |-> Obj([display |-> Str("flex"),
                                                  gap |-> Str("10px"),
                                                  flexWrap |-> Str("wrap")])],
                                  <<navButton("dashboard", "Dashboard"),
                                    navButton("counter", "Counter"),
                                    navButton("todos", "Todo App")>>)>>)>>),
                  createElement("div",
                      [className |-> Str("app-content"),
                       style |-> Obj([padding |-> Str("20px")])],
                      <<renderContent>>)>>),
         w |-> u.w]

\* vnode.type(vnode.props)
Invoke(type, props, w) ==
    CASE type = "App" -> App(props, w)
      [] type = "Counter" -> Counter(props, w)
      [] type = "Button" -> Button(props, w)
      [] type = "TodoApp" -> TodoApp(props, w)
      [] type = "AddTodoForm" -> AddTodoForm(props, w)
      [] type = "TodoItem" -> TodoItem(props, w)
      [] type = "Dashboard" -> Dashboard(props, w)
      [] type = "StyledButton" -> StyledButton(props, w)
      [] type = "Chart" -> Chart(props, w)
      [] type = "Card" -> Card(props, w)
      [] type = "Select" -> Select(props, w)
      [] type = "Eager" -> Eager(props, w)
      [] type = "Container" -> Container(props, w)
      [] type = "Modal" -> Modal(props, w)

(***************************************************************************)
(* The host document.  A container holds a list of top-level nodes, each   *)
(* with an identity; a node is a text node, an element or a fragment.      *)
(***************************************************************************)
Containers == {"app", "side"}

TextNode(text) == [kind |-> "text", text |-> text]
FragmentNode(children) == [kind |-> "fragment", children |-> children]
\* the value of an expression that threw
Thrown == [kind |-> "thrown"]

\* what one call into the runtime has done so far
NoHook == [component |-> NoComponent, states |-> 0, index |-> 0]
\* op, hook, value, vnode, container: the call and its arguments; passes: the
\* descriptors handed to the renderer by mount and by setters; invoked: the
\* component functions run; created: native nodes created; mounted:
\* post-mount callbacks run; installs: nodes put in place by setters
NoCall == [op |-> "none", hook |-> NoHook, value |-> Undefined, vnode |-> Null,
           container |-> NoContainer, passes |-> <<>>, invoked |-> {},
           created |-> 0, mounted |-> 0, installs |-> 0, thrown |-> FALSE,
           handler |-> "none", callbacks |-> <<>>, nested |-> 0,
           args |-> <<>>, result |-> Null, trace |-> <<>>, depth |-> 0]

\* document.createTextNode / createElement / createDocumentFragment
Created(w) == [w EXCEPT !.call.created = @ + 1]

\* AppendNodeFront: the node is put before the children already there
AppendNodeFront(children, node) ==
    IF node.kind = "fragment" THEN node.children \o children
    ELSE <<node>> \o children

\* parent.appendChild(node) on a node under construction: a fragment gives
\* its children away
AppendNode(children, node) ==
    IF node.kind = "fragment" THEN children \o node.children
    ELSE Append(children, node)

\* a reference to a top-level node: null, a node without parent, or the
\* child of a container at an index
NoNode == [at |-> "null"]
Detached == [at |-> "detached"]
Child(c, i) == [at |-> "child", container |-> c, index |-> i]

\* the entries a node contributes to a child list: itself, or its children
\* when it is a fragment
Entries(node) == IF node.kind = "fragment" THEN node.children ELSE <<node>>

\* where a node is once it has been put at index i of container c: a
\* fragment is left empty and without parent
Placed(node, c, i) == IF node.kind = "fragment" THEN Detached ELSE Child(c, i)

\* node.parentNode for a top-level node
ParentNode(ref) == IF ref.at = "child" THEN ref.container ELSE NoContainer

\* clearChildrenTeardown: emptying a container also drops the slot lists of
\* the components
clearChildrenTeardown(c, w) ==
    [w EXCEPT !.dom[c] = <<>>,
              !.renderedNode = IF ParentNode(@) = c THEN Detached ELSE @,
              !.componentStates = <<>>]

\* container.innerHTML = ''
clearChildren(c, w) ==
    [w EXCEPT !.dom[c] = <<>>,
              !.renderedNode = IF ParentNode(@) = c THEN Detached ELSE @]

\* container.appendChild(node)
appendChild(c, node, w) == [w EXCEPT !.dom[c] = @ \o Entries(node)]

\* parent.replaceChild(node, old), old being the child at index i
replaceChild(c, node, i, w) ==
    [w EXCEPT !.dom[c] = SubSeq(@, 1, i - 1) \o Entries(node)
                         \o SubSeq(@, i + 1, Len(@))]

(***************************************************************************)
(* PART 4: DOM rendering                                                   *)
(***************************************************************************)
ReservedKeys == {"key", "ref", "_onMounted"}
FormKeys == {"value", "checked", "disabled"}
ValueTags == {"input", "select", "textarea"}

\* BindPropsStringified: every attribute value is stringified, true included
BindPropsStringified(type, props) ==
    LET keys == (DOMAIN props) \ ReservedKeys
        eventKeys == {k \in keys : StartsWith(k, "on")}
        plainKeys == (keys \ eventKeys) \ ({"className", "style"} \cup FormKeys)
        attrKeys ==
            {k \in plainKeys : props[k] \notin {Null, Undefined, Bool(FALSE)}}
            \cup {k \in keys \ eventKeys : k = "style" /\ props[k].t = "string"}
            \cup {k \in keys \ eventKeys : k = "value" /\ type \in ValueTags}
    IN  [kind |-> "element",
         tag |-> type,
         listeners |->
            {<<ToLowerCase(SubSeq(k, 3, Len(k))), props[k]>> :
                k \in {e \in eventKeys : props[e].t = "function"}},
         className |->
            IF "className" \in keys /\ Truthy(props["className"])
            THEN ToStr(props["className"]) ELSE "",
         style |->
            IF "style" \in keys \ eventKeys /\ props["style"].t = "object"
            THEN props["style"].fields ELSE EmptyObject,
         fields |-> [k \in (keys \ eventKeys) \cap FormKeys |-> props[k]],
         attrs |->
            [k \in attrKeys |->
                ToStr(props[k])],
         children |-> <<>>]

\* the element created for a host tag, with its properties bound
BindProps(type, props) ==
    LET keys == (DOMAIN props) \ ReservedKeys
        eventKeys == {k \in keys : StartsWith(k, "on")}
        plainKeys == (keys \ eventKeys) \ ({"className", "style"} \cup FormKeys)
        attrKeys ==
            {k \in plainKeys : props[k] \notin {Null, Undefined, Bool(FALSE)}}
            \cup {k \in keys \ eventKeys : k = "style" /\ props[k].t = "string"}
            \cup {k \in keys \ eventKeys : k = "value" /\ type \in ValueTags}
    IN  [kind |-> "element",
         tag |-> type,
         listeners |->
            {<<ToLowerCase(SubSeq(k, 3, Len(k))), props[k]>> :
                k \in {e \in eventKeys : props[e].t = "function"}},
         className |->
            IF "className" \in keys /\ Truthy(props["className"])
            THEN ToStr(props["className"]) ELSE "",
         style |->
            IF "style" \in keys \ eventKeys /\ props["style"].t = "object"
            THEN props["style"].fields ELSE EmptyObject,
         fields |-> [k \in (keys \ eventKeys) \cap FormKeys |-> props[k]],
         attrs |->
            [k \in attrKeys |->
                IF props[k] = Bool(TRUE) /\ k \in plainKeys THEN ""
                ELSE ToStr(props[k])],
         children |-> <<>>]

\* the tags whose disabled property reflects the content attribute
DisabledTags == {"input", "button", "select", "textarea"}

\* element.hasAttribute(name) / element.getAttribute(name): the attributes
\* set by setAttribute, and disabled where the property assigned reflects it
hasAttribute(element, name) ==
    \/ name \in DOMAIN element.attrs
    \/ /\ name = "disabled"
       /\ element.tag \in DisabledTags
       /\ "disabled" \in DOMAIN element.fields
       /\ Truthy(element.fields["disabled"])
getAttribute(element, name) ==
    IF name \in DOMAIN element.attrs THEN Str(element.attrs[name])
    ELSE IF hasAttribute(element, name) THEN Str("")
    ELSE Null

\* a callback of the descriptor called with the element
Called(prop, fn, node, w) ==
    [w EXCEPT !.call.callbacks = Append(@, [prop |-> prop, fn |-> fn, node |-> node])]

\* callOnMountedEarly: _onMounted is called with the element as created,
\* before its children are appended
callOnMountedEarly(props, element, nodes, w) ==
    LET onMounted == PropGet(props, "_onMounted")
    IN  IF Truthy(onMounted) /\ onMounted.t = "function"
        THEN Called("_onMounted", onMounted, element,
                    [w EXCEPT !.call.mounted = @ + 1])
        ELSE w

\* vnode.props._onMounted(element) once the children are appended
callOnMounted(props, element, nodes, w) ==
    LET onMounted == PropGet(props, "_onMounted")
    IN  IF Truthy(onMounted) /\ onMounted.t = "function"
        THEN Called("_onMounted", onMounted, [element EXCEPT !.children = nodes],
                    [w EXCEPT !.call.mounted = @ + 1])
        ELSE w

\* enterKeepIndex: the component is entered with the slot index left where
\* the last useState call put it
enterKeepIndex(type, w) ==
    [w EXCEPT !.currentComponent = type, !.call.invoked = @ \cup {type}]

\* currentComponent = vnode.type; stateIndex = 0
enter(type, w) ==
    Log("invoke",
        [w EXCEPT !.currentComponent = type, !.stateIndex = 0,
                  !.call.invoked = @ \cup {type}])

RECURSIVE renderToDOM(_, _)
RECURSIVE renderChildren(_, _, _)
RECURSIVE renderResult(_)

\* children.forEach(child => parent.appendChild(renderToDOM(child)))
renderChildren(children, acc, w) ==
    IF Len(children) = 0 \/ w.call.thrown THEN [nodes |-> acc, w |-> w]
    ELSE LET r == renderToDOM(Head(children), w)
         IN  IF r.w.call.thrown THEN [nodes |-> acc, w |-> r.w]
             ELSE renderChildren(Tail(children), AppendNode(acc, r.node), r.w)

\* currentComponent = null; return renderToDOM(result): not reached when
\* the component function threw
renderResult(r) ==
    IF r.w.call.thrown THEN [node |-> Thrown, w |-> r.w]
    ELSE renderToDOM(r.result, [r.w EXCEPT !.currentComponent = NoComponent])

renderToDOM(vnode, w) ==
    IF vnode = Undefined
    THEN [node |-> TextNode(""), w |-> Created(w)]
    ELSE IF vnode.t \in {"string", "number"}
    THEN [node |-> TextNode(ToStr(vnode)), w |-> Created(w)]
    ELSE IF vnode.t # "vnode"
    \* null.type, or Object.entries of the missing props of another value
    THEN [node |-> Thrown, w |-> Throw(w)]
    ELSE IF vnode.type = "fragment"
    THEN LET r == renderChildren(vnode.children, <<>>, Created(w))
         IN  [node |-> IF r.w.call.thrown THEN Thrown ELSE FragmentNode(r.nodes),
              w |-> r.w]
    ELSE IF vnode.type \in Components
    THEN renderResult(Invoke(vnode.type, vnode.props, enter(vnode.type, w)))
    ELSE IF PropGet(vnode.props, "style") = Null
    \* typeof null is "object": Object.entries(null) throws
    THEN [node |-> Thrown, w |-> Throw(Created(w))]
    ELSE LET element == BindProps(vnode.type, vnode.props)
             r == renderChildren(vnode.children, <<>>, Created(w))
         IN  IF r.w.call.thrown THEN [node |-> Thrown, w |-> r.w]
             ELSE [node |-> [element EXCEPT !.children = r.nodes],
                   w |-> callOnMounted(vnode.props, element, r.nodes, r.w)]

\* installDropped: the node the pass produced is not put in place
installDropped(r) == r.w

\* the new node takes the place of the recorded one when that one has a
\* parent; otherwise the root container is emptied and the node appended
install(r) ==
    LET newDom == r.node
        old == r.w.renderedNode
    IN  IF r.w.call.thrown THEN r.w
        ELSE IF old # NoNode /\ ParentNode(old) # NoContainer
        THEN PassDone("installed",
                [replaceChild(ParentNode(old), newDom, old.index, r.w)
                    EXCEPT !.renderedNode = Placed(newDom, ParentNode(old), old.index),
                           !.call.installs = @ + 1])
        ELSE PassDone("installed",
                [appendChild(r.w.rootContainer, newDom,
                             clearChildren(r.w.rootContainer, r.w))
                    EXCEPT !.renderedNode = Placed(newDom, r.w.rootContainer, 1),
                           !.call.installs = @ + 1])

\* RootRecordedAlways: the setter renders whether or not a root is recorded
RootRecordedAlways(w) == TRUE

\* if (rootVNode && rootContainer)
RootRecorded(w) == w.rootVNode # Null /\ w.rootContainer # NoContainer

\* updateAndRenderDeferred: the slot is written and the render is left for
\* later
updateAndRenderDeferred(hook, newValue, w) ==
    Log("set", [w EXCEPT !.heap[hook.states] = ArrSet(@, hook.index, newValue)])

\* the setter useState returns, past its early return: the slot is written
\* and the root is rendered again and put in place
updateAndRender(hook, newValue, w) ==
    LET w1 == Log("set",
                  [w EXCEPT !.heap[hook.states] = ArrSet(@, hook.index, newValue)])
    IN  IF RootRecorded(w1)
        THEN install(renderToDOM(w1.rootVNode,
                        PassStarts(
                        [w1 EXCEPT !.stateIndex = 0,
                                   !.currentComponent = NoComponent,
                                   !.call.passes = Append(@, w1.rootVNode),
                                   !.call.nested =
                                        IF w1.currentComponent # NoComponent
                                        THEN @ + 1 ELSE @])))
        ELSE w1

\* setterNoEarlyReturn: the setter without its equality test
setterNoEarlyReturn(hook, newValue, w) == updateAndRender(hook, newValue, w)

\* the setter useState returns: (newValue) => { ... }
setter(hook, newValue, w) ==
    IF ArrGet(w.heap[hook.states], hook.index) = newValue THEN w
    ELSE updateAndRender(hook, newValue, w)

\* container.appendChild(domNode)
attach(container, r) ==
    IF r.w.call.thrown THEN r.w
    ELSE PassDone("attached", appendChild(container, r.node, r.w))

mount(vnode, container, w) ==
    attach(container,
           renderToDOM(vnode,
               PassStarts(
               [w EXCEPT !.rootVNode = vnode, !.rootContainer = container,
                         !.call.passes = Append(@, vnode)])))

setGlobalRender(vnode, container, w) ==
    [w EXCEPT !.globalVNode = vnode, !.globalContainer = container]

render(w) ==
    IF w.globalContainer # NoContainer /\ w.globalVNode # Null
    THEN mount(w.globalVNode, w.globalContainer,
               clearChildren(w.globalContainer, w))
    ELSE w

rerender(vnode, container, w) == render(setGlobalRender(vnode, container, w))

(***************************************************************************)
(* The environment: the descriptors that are mounted and the values that   *)
(* event handlers pass to the setters                                      *)
(***************************************************************************)
\* mount(createElement(App, {}), appContainer) of src/src/main.tsx
AppRoot == createElement("App", EmptyObject, <<>>)
\* one component function used twice under a host element
CountersRoot ==
    createElement("div", Null,
        <<createElement("Counter", [initialCount |-> Num(0)], <<>>),
          createElement("Counter", [initialCount |-> Num(1)], <<>>)>>)
\* a fragment as the root
FragmentRoot ==
    createFragment(Null,
        <<createElement("Counter", [initialCount |-> Num(1)], <<>>), Str("A")>>)

\* the programs of the repository that drive the runtime: the page
\* (src/src/main.tsx), which mounts the application once into the empty #app
\* element; a test harness in the manner of the test suite of
\* jsx-runtime.ts, which calls every entry point on either container; and
\* the tests of the pure functions, which call createElement and the
\* renderer on descriptors of their own
Programs == {"main", "harness", "tests"}

\* a client of the data service alone
Categories == {"sales", "visitors", "market", "unknown"}
\* the variation the dashboard asks for
Variations == {15}

\* a client that breaks the rules of hooks, alone and beside a Counter
EagerRoot == createElement("Eager", EmptyObject, <<>>)
EagerCounterRoot ==
    createElement("div", Null,
        <<createElement("Eager", EmptyObject, <<>>),
          createElement("Counter", [initialCount |-> Num(0)], <<>>)>>)

\* the programs that are the page
Pages == {"main", "live", "todos"}

RootDescs(p) ==
    CASE p \in Pages -> {AppRoot}
      [] p = "harness" -> {CountersRoot, FragmentRoot}
      [] p = "misuse" -> {EagerRoot, EagerCounterRoot}
      [] OTHER -> {}

\* the values a call of the setter of a slot is made with
SetterInputs(hook) ==
    CASE hook.component = "App" /\ program = "todos" ->
            {Str("todos")}
      [] hook.component = "App" ->
            {Str("dashboard"), Str("counter"), Str("todos")}
      [] hook.component = "Counter" /\ program # "live" ->
            {Num(n) : n \in 0..MaxCount} \cup {Undefined}
      [] hook.component = "TodoApp" /\ hook.index = 1
            /\ program \notin {"live", "todos"} ->
            {Str("all"), Str("active")}
      \* onChange of the text input of the form: setInput(input.value)
      [] hook.component = "AddTodoForm" /\ program = "todos" ->
            {Str("a")}
      \* onChange of the chart type Select: setChartType(e.target.value)
      [] hook.component = "Dashboard" /\ hook.index = 0 /\ program = "live" ->
            {Str("all"), Str("bar")}
      \* onClick of the live-update button: setAutoUpdate(!getAutoUpdate())
      [] hook.component = "Dashboard" /\ hook.index = 1 /\ program = "live" ->
            {Bool(~Truthy(getter(hook, World)))}
      [] hook.component = "Eager" /\ hook.index = 0 ->
            {Num(0), Num(1)}
      [] OTHER -> {}

\* the node that is in the page before the application starts
StaticNode == [kind |-> "element", tag |-> "aside", listeners |-> {},
               className |-> "", style |-> EmptyObject, fields |-> EmptyObject,
               attrs |-> EmptyObject, children |-> <<>>]

\* the state in which program p starts
Start(p) ==
    /\ heap = <<>>
    /\ componentStates = <<>>
    /\ currentComponent = NoComponent
    /\ stateIndex = 0
    /\ rootVNode = Null
    /\ rootContainer = NoContainer
    /\ renderedNode = NoNode
    /\ globalContainer = NoContainer
    /\ globalVNode = Null
    /\ dom = [c \in Containers |->
                IF c = "side" THEN <<StaticNode>> ELSE <<>>]
    /\ hooks = {}
    /\ timers = 0
    /\ data = generateMockData
    /\ program = p
    /\ call = NoCall

Init == \E p \in Programs : Start(p)

\* the world at the start of a call into the runtime
Begin(op, hook, value, vnode, container) ==
    [World EXCEPT !.call = [NoCall EXCEPT !.op = op, !.hook = hook,
                                          !.value = value, !.vnode = vnode,
                                          !.container = container]]

\* the world a call leaves becomes the next state
Commit(w) ==
    /\ heap' = w.heap
    /\ componentStates' = w.componentStates
    /\ currentComponent' = w.currentComponent
    /\ stateIndex' = w.stateIndex
    /\ rootVNode' = w.rootVNode
    /\ rootContainer' = w.rootContainer
    /\ renderedNode' = w.renderedNode
    /\ globalContainer' = w.globalContainer
    /\ globalVNode' = w.globalVNode
    /\ dom' = w.dom
    /\ hooks' = w.hooks
    /\ timers' = w.timers
    /\ data' = w.data
    /\ call' = w.call
    /\ UNCHANGED program

\* mount(vnode, container)
Mount ==
    \E vnode \in RootDescs(program), container \in Containers :
        /\ IF program \in Pages
           THEN container = "app" /\ dom[container] = <<>>
           ELSE Len(dom["app"]) + Len(dom["side"]) <= MaxNodes
        /\ Commit(mount(vnode, container, Begin("mount", NoHook, Undefined, vnode, container)))

\* rerender(vnode, container)
Rerender ==
    \E vnode \in RootDescs(program), container \in Containers :
        /\ program = "harness"
        /\ Commit(rerender(vnode, container,
                           Begin("rerender", NoHook, Undefined, vnode, container)))

\* an event handler calls a setter a render pass has handed out
CallSetter ==
    \E hook \in hooks : \E value \in SetterInputs(hook) :
        /\ timers < MaxTimers
        /\ Commit(setter(hook, value, Begin("set", hook, value, Null, NoContainer)))

RECURSIVE Closed(_)
\* a function value and the function values its closure holds
Closed(fn) ==
    {fn} \cup UNION {Closed(fn.env[k]) :
                        k \in {x \in DOMAIN fn.env :
                                 "t" \in DOMAIN fn.env[x]
                                 /\ fn.env[x].t = "function"}}

RECURSIVE HandlersIn(_)
\* the event listeners of a list of nodes and of their descendants
HandlersIn(nodes) ==
    IF Len(nodes) = 0 THEN {}
    ELSE (IF Head(nodes).kind = "element"
          THEN UNION {Closed(l[2]) : l \in Head(nodes).listeners}
               \cup HandlersIn(Head(nodes).children)
          ELSE {})
         \cup HandlersIn(Tail(nodes))

\* the listeners of the whole document
DocumentHandlers == UNION {HandlersIn(dom[c]) : c \in Containers}

\* the keys pressed on a Counter: one for each branch of handleKeyDown
Keys == {"ArrowUp", "-", "r", "x"}

\* the function of the Counter a handler runs: a button runs its own, and
\* handleKeyDown picks one by the key
Handled(fn, key) ==
    IF fn.name # "handleKeyDown" THEN fn.name
    ELSE CASE key \in {"ArrowUp", "+"} -> "increment"
           [] key \in {"ArrowDown", "-"} -> "decrement"
           [] key \in {"0", "r", "R"} -> "reset"
           [] OTHER -> "none"

\* HandlerValueByTwo: increment adds two
HandlerValueByTwo(name, env, w) ==
    CASE name = "increment" -> Num(getter(env.getCount, w).n + 2)
      [] name = "decrement" -> Num(getter(env.getCount, w).n - 1)
      [] OTHER -> env.initialCount

\* what increment, decrement and reset hand to setCount
HandlerValue(name, env, w) ==
    CASE name = "increment" -> Num(getter(env.getCount, w).n + 1)
      [] name = "decrement" -> Num(getter(env.getCount, w).n - 1)
      [] OTHER -> env.initialCount

\* the handlers of the Counters in the document
CounterHandlers ==
    {fn \in DocumentHandlers :
        fn.name \in {"increment", "decrement", "reset", "handleKeyDown"}}

\* a click on a button of a Counter of the page, or a key pressed on it
Handle ==
    \E fn \in CounterHandlers :
    \E key \in IF fn.name = "handleKeyDown" THEN Keys ELSE {"click"} :
        LET name == Handled(fn, key)
            count == getter(fn.env.getCount, World)
            value == HandlerValue(name, fn.env, World)
            w == [Begin("set", fn.env.setCount, value, Null, NoContainer)
                    EXCEPT !.call.handler = name]
        IN  /\ program = "main"
            /\ count.t = "number"
            /\ name = "increment" => count.n < MaxUp
            /\ name = "decrement" => count.n > -MaxDown
            /\ IF name = "none"
               THEN Commit([w EXCEPT !.call.op = "key", !.call.hook = NoHook,
                                     !.call.value = Undefined])
               ELSE Commit(setter(fn.env.setCount, value, w))

\* renderToDOM(vnode) called directly, the node it returns not attached
RenderToDOM ==
    \E vnode \in RootDescs(program) :
        /\ program = "harness"
        /\ Commit(renderToDOM(vnode,
                Begin("renderToDOM", NoHook, Undefined, vnode, NoContainer)).w)

\* the values the tests pass as children: text, a number, null, undefined,
\* a descriptor, an array and an array holding an array
ChildValues ==
    {Str("A"), Num(0), Null, Undefined, createElement("span", Null, <<>>),
     Arr(<<Str("B"), Null>>), Arr(<<Arr(<<Str("C")>>), Undefined>>)}

ArgLists == UNION {[1..n -> ChildValues] : n \in 0..MaxArgs}

\* createElement(type, props, ...children) called by a test; each test is
\* a run of its own
CreateElement ==
    \E type \in {"div", "Counter"}, props \in {Null, [className |-> Str("test")]},
       children \in ArgLists :
        /\ program = "tests"
        /\ call.op = "none"
        /\ Commit([Begin("createElement", NoHook, Undefined,
                         createElement(type, props, children), NoContainer)
                      EXCEPT !.call.args = <<type, props, children>>])

\* createElement(Container, null, 'Child 1', 'Child 2') of test 3.2
ContainerTest ==
    createElement("Container", Null, <<Str("Child 1"), Str("Child 2")>>)

\* createElement('input', {type, placeholder, disabled: false}) of test 2.3
InputTest ==
    createElement("input",
                  [type |-> Str("text"), placeholder |-> Str("Enter text"),
                   disabled |-> Bool(FALSE)],
                  <<>>)

\* host descriptors with one property: a key of each kind the binding tells
\* apart, holding a boolean, null or undefined
PropKeys ==
    {"hidden", "disabled", "checked", "value", "className", "style", "onClick",
     "key", "ref", "_onMounted"}
PropValues == {Bool(TRUE), Bool(FALSE), Null, Undefined}
PropTests ==
    {createElement(tag, [k \in {key} |-> value], <<>>) :
        tag \in {"input", "div"}, key \in PropKeys, value \in PropValues}

\* <input ref={r => inputRef = r} /> of the README
RefTest == createElement("input", [ref |-> Fn("setInputRef", <<>>)], <<>>)

\* host descriptors with _onMounted callbacks, nested and side by side, and
\* one whose _onMounted is not a function
MountedTest ==
    createElement("div", [_onMounted |-> Fn("f", <<>>)],
        <<createElement("span", [_onMounted |-> Fn("g", <<>>)], <<Str("x")>>),
          createElement("p", [_onMounted |-> Fn("h", <<>>)], <<>>),
          Str("y")>>)
NotCallableTest ==
    createElement("div", [_onMounted |-> Str("drawOnMount")], <<Str("z")>>)

\* createFragment(null, 'A', 'B', 'C') of test 2.5
FragmentTest == createFragment(Null, <<Str("A"), Str("B"), Str("C")>>)

\* fragments of up to two children: a text, a number, an element, a
\* fragment, an empty fragment
FragmentChildren ==
    {Str("A"), Num(0), createElement("span", Null, <<Str("S")>>),
     createFragment(Null, <<Str("B"), Str("C")>>), createFragment(Null, <<>>)}
FragmentTests ==
    {createFragment(Null, children) :
        children \in UNION {[1..n -> FragmentChildren] : n \in 0..2}}

\* a Chart without its data prop: the component function throws
ChartNoDataTest == createElement("Chart", Null, <<>>)

\* the descriptors the tests hand to the renderer
\* descriptors of the components of the library: a Modal, closed and open,
\* a Card with and without a title, a Select with and without options
LibraryTests ==
    {createElement("Modal", [isOpen |-> b, title |-> Str("Note")], <<>>) :
        b \in {Bool(FALSE), Bool(TRUE)}}
    \cup {createElement("Card", props, <<Str("body")>>) :
            props \in {[title |-> Str("Total")], EmptyObject}}
    \cup {createElement("Select", props, <<>>) :
            props \in {[options |-> Arr(<<Obj([value |-> Str("all"),
                                               label |-> Str("All")])>>)],
                       EmptyObject}}

TestDescs ==
    {ContainerTest, InputTest, RefTest, MountedTest, NotCallableTest,
     FragmentTest, ChartNoDataTest}
        \cup PropTests \cup FragmentTests \cup LibraryTests

\* renderToDOM(vnode) called by a test on a descriptor of its own, the node
\* returned kept by the test
RenderTest ==
    \E vnode \in TestDescs :
        /\ program = "tests"
        /\ call.op = "none"
        /\ LET r == renderToDOM(vnode,
                        Begin("renderTest", NoHook, Undefined, vnode, NoContainer))
           IN  Commit([r.w EXCEPT !.call.result = r.node])

Next ==
    \/ Mount \/ Rerender \/ CallSetter \/ Handle \/ RenderToDOM
    \/ CreateElement \/ RenderTest

Spec == Init /\ [][Next]_vars

RECURSIVE Marks(_, _)
\* the points the calls of simulateUpdate have appended so far: each has
\* put one "+" behind the label of the last point of its chart
Marks(charts, first) ==
    IF Len(charts) = 0 THEN 0
    ELSE Len(Head(charts).data[Len(Head(charts).data)].label)
         - Len(Head(first).data[Len(Head(first).data)].label)
         + Marks(Tail(charts), Tail(first))

Updates == Marks(data, generateMockData)

\* dataService.simulateUpdate(category, variation)
SimulateUpdate ==
    \E category \in Categories, variation \in Variations, random \in Randoms :
        /\ program = "data"
        /\ getDataByCategory(category, World) # 0 => Updates < MaxUpdates
        /\ LET r == simulateUpdate(category, variation, random,
                        Begin("simulateUpdate", NoHook, Str(category), Null,
                              NoContainer))
           IN  Commit([r.w EXCEPT !.call.result = r.result])

InitData == Start("data")

NextData == SimulateUpdate

SpecData == InitData /\ [][NextData]_vars

RECURSIVE Trim(_)
\* String.prototype.trim, for blanks
Trim(str) ==
    IF Len(str) = 0 THEN ""
    ELSE IF SubSeq(str, 1, 1) = " " THEN Trim(SubSeq(str, 2, Len(str)))
    ELSE IF SubSeq(str, Len(str), Len(str)) = " "
    THEN Trim(SubSeq(str, 1, Len(str) - 1))
    ELSE str

\* the list a setTodos call of the handlers is made with is a new array,
\* never === the one in the slot
setTodos(env, items, w) == updateAndRender(env.setTodos, Arr(items), w)

\* addTodo(text), Date.now() returning now
addTodo(env, text, now, w) ==
    LET currentTodos == getter(env.getTodos, w).items
        newTodo == Obj([id |-> Num(now), text |-> text,
                        completed |-> Bool(FALSE), createdAt |-> Num(now)])
    IN  setTodos(env, Append(currentTodos, newTodo), w)

\* toggleTodo(id)
toggleTodo(env, id, w) ==
    LET currentTodos == getter(env.getTodos, w).items
        updated == [i \in 1..Len(currentTodos) |->
                      IF currentTodos[i].fields.id = id
                      THEN Obj([currentTodos[i].fields EXCEPT
                                  !.completed = Bool(~Truthy(@))])
                      ELSE currentTodos[i]]
    IN  setTodos(env, updated, w)

\* deleteTodo(id)
deleteTodo(env, id, w) ==
    LET currentTodos == getter(env.getTodos, w).items
        IsOther(todo) == todo.fields.id # id
    IN  setTodos(env, SelectSeq(currentTodos, IsOther), w)

\* clearCompleted()
clearCompleted(env, w) ==
    LET currentTodos == getter(env.getTodos, w).items
        IsActive(todo) == ~Truthy(todo.fields.completed)
    IN  setTodos(env, SelectSeq(currentTodos, IsActive), w)

\* handleSubmit of the AddTodoForm
handleSubmit(env, now, w) ==
    LET inputValue == getter(env.getInput, w)
    IN  IF Trim(ToStr(inputValue)) # ""
        THEN setter(env.setInput, Str(""),
                    addTodo(env.onAdd.env, inputValue, now, w))
        ELSE w

\* the handlers of the todo list in the document
TodoHandlers ==
    {fn \in DocumentHandlers :
        fn.name \in {"handleSubmit", "onToggle(todo.id)", "onDelete(todo.id)",
                     "clearCompleted"}}

\* the values Date.now() returns
Times == {1, 2}

\* the todos in the slot of the TodoApp, none before its first render
Todos ==
    LET pairs == {h \in hooks : h.component = "TodoApp" /\ h.index = 0}
    IN  IF pairs = {} THEN <<>>
        ELSE getter(CHOOSE h \in pairs : TRUE, World).items

\* the form is submitted, the checkbox or the Delete button of an item or
\* the Clear Done button is clicked; the clock does not run backwards
TodoHandle ==
    \E fn \in TodoHandlers, now \in Times :
        LET w == [Begin("todo", NoHook, Undefined, Null, NoContainer)
                    EXCEPT !.call.handler = fn.name]
        IN  /\ program = "todos"
            /\ CASE fn.name = "handleSubmit" ->
                    /\ Len(Todos) < MaxTodos
                    /\ \A i \in 1..Len(Todos) : Todos[i].fields.id.n <= now
                    /\ Commit(handleSubmit(fn.env, now, w))
                 [] fn.name = "onToggle(todo.id)" ->
                    /\ now = 1
                    /\ Commit(toggleTodo(fn.env.f.env, fn.env.id,
                                         [w EXCEPT !.call.value = fn.env.id]))
                 [] fn.name = "onDelete(todo.id)" ->
                    /\ now = 1
                    /\ Commit(deleteTodo(fn.env.f.env, fn.env.id,
                                         [w EXCEPT !.call.value = fn.env.id]))
                 [] OTHER ->
                    /\ now = 1
                    /\ Commit(clearCompleted(fn.env, w))

\* the page with its user at the navigation and at the todo list
InitTodos == Start("todos")

NextTodos == Mount \/ CallSetter \/ TodoHandle

SpecTodos == InitTodos /\ [][NextTodos]_vars

\* categories[Math.floor(Math.random() * categories.length)]
RandomCategory(random) ==
    <<"sales", "visitors", "market">>[(random * 3) \div RandomUnits + 1]

\* the callback of the Dashboard's setTimeout, run once with the state it
\* finds
timerCallback(hook, category, random, w) ==
    LET u == simulateUpdate(category, 15, random, w)
    IN  setter(hook, Num(getter(hook, u.w).n + 1), u.w)

\* a timer set by a render of the Dashboard runs out: its callback closes
\* over the third pair of the Dashboard (getUpdateCount, setUpdateCount)
TimerFires ==
    \E hook \in hooks, r1 \in Randoms, r2 \in Randoms :
        /\ program = "live"
        /\ timers > 0
        /\ hook.component = "Dashboard" /\ hook.index = 2
        /\ getter(hook, World).n < MaxFirings
        /\ Commit(timerCallback(hook, RandomCategory(r1), r2,
                [Begin("timer", hook, Str(RandomCategory(r1)), Null, NoContainer)
                    EXCEPT !.timers = @ - 1]))

\* the page with its user at the navigation and at the controls of the
\* dashboard, and time passing
InitLive == Start("live")

NextLive == Mount \/ CallSetter \/ TimerFires

SpecLive == InitLive /\ [][NextLive]_vars

\* useState(initialValue) called by code that is not a component being
\* rendered: currentComponent is null
UseStateOutside ==
    /\ program = "misuse"
    /\ stateIndex < MaxIndex
    /\ LET u == useState(Str("outside"),
                         Begin("useState", NoHook, Str("outside"), Null, NoContainer))
       IN  Commit([u.w EXCEPT !.call.hook = u.getter])

\* a program whose code breaks the rules of hooks: useState outside a
\* render, a setter called in a component body
InitMisuse == Start("misuse")

NextMisuse == Mount \/ CallSetter \/ UseStateOutside

SpecMisuse == InitMisuse /\ [][NextMisuse]_vars

(***************************************************************************)
(* Properties                                                              *)
(***************************************************************************)
\* the value of the slot a hook refers to, in the current state
SlotOf(hook) == ArrGet(heap[hook.states], hook.index)

\* this step is a call of a setter with a value other than (identical to)
\* the one its slot holds
SetterChanges == call'.op = "set" /\ SlotOf(call'.hook) # call'.value
SetterRepeats == call'.op = "set" /\ SlotOf(call'.hook) = call'.value

\* a root descriptor and a container are recorded
RootBound == rootVNode # Null /\ rootContainer # NoContainer

\* C1: a setter called with the value its slot already holds changes nothing:
\* the slot, the store, the root binding and the document stay as they are,
\* no render pass runs, no native node is created and no post-mount callback
\* is invoked.
C1_SameValueIsNoOp ==
    [][SetterRepeats =>
        /\ UNCHANGED <<heap, componentStates, currentComponent, stateIndex,
                       rootVNode, rootContainer, renderedNode, globalContainer,
                       globalVNode, dom, hooks, timers>>
        /\ call'.passes = <<>>
        /\ call'.invoked = {}
        /\ call'.created = 0
        /\ call'.mounted = 0
        /\ call'.installs = 0]_vars

\* a setter was called, after mount, with the value of its slot
C1_Witness ==
    /\ call.op = "set"
    /\ RootBound
    /\ SlotOf(call.hook) = call.value
    /\ call.passes = <<>>

\* C2: once a root is mounted, a setter call with a value other than the
\* slot's writes the slot and runs, within the call, exactly one render pass,
\* of the root descriptor; so k such calls in a row run k passes, in order.
C2_OnePassPerChange ==
    [][(SetterChanges /\ RootBound) =>
        /\ call'.passes = <<rootVNode>>
        /\ rootVNode' = rootVNode
        /\ call'.installs = 1
        /\ (call'.hook.component \notin call'.invoked
                => ArrGet(heap'[call'.hook.states], call'.hook.index) = call'.value)
        /\ (call'.value # Undefined
                => ArrGet(heap'[call'.hook.states], call'.hook.index) = call'.value)]_vars

\* the Counter's setter has run one pass of the application root
C2_Witness ==
    /\ call.op = "set"
    /\ call.hook.component = "Counter"
    /\ rootVNode = AppRoot
    /\ call.passes = <<AppRoot>>
    /\ SlotOf(call.hook) = call.value

\* the names the components give to what their useState calls return, with
\* the component and the position of the call among its useState calls
DeclaredAt ==
    [getActiveTab |-> <<"App", 0>>, setActiveTab |-> <<"App", 0>>,
     getCount |-> <<"Counter", 0>>, setCount |-> <<"Counter", 0>>,
     getInput |-> <<"AddTodoForm", 0>>, setInput |-> <<"AddTodoForm", 0>>,
     getTodos |-> <<"TodoApp", 0>>, setTodos |-> <<"TodoApp", 0>>,
     getFilter |-> <<"TodoApp", 1>>, setFilter |-> <<"TodoApp", 1>>,
     getSearch |-> <<"TodoApp", 2>>, setSearch |-> <<"TodoApp", 2>>,
     getChartType |-> <<"Dashboard", 0>>, setChartType |-> <<"Dashboard", 0>>,
     getAutoUpdate |-> <<"Dashboard", 1>>, setAutoUpdate |-> <<"Dashboard", 1>>,
     getUpdateCount |-> <<"Dashboard", 2>>, setUpdateCount |-> <<"Dashboard", 2>>]

\* the hook of the i-th useState call of a component
HookAt(d) ==
    [component |-> d[1],
     states |-> IF d[1] \in DOMAIN componentStates
                THEN componentStates[d[1]] ELSE 0,
     index |-> d[2]]

\* every getter and setter handed out refers to the slot of its call's
\* position in the one array of its component
Aligned ==
    /\ \A h \in hooks :
            /\ h.component \in DOMAIN componentStates
            /\ \E k \in DOMAIN DeclaredAt : h = HookAt(DeclaredAt[k])
    /\ \A fn \in DocumentHandlers :
            \A k \in (DOMAIN fn.env) \cap (DOMAIN DeclaredAt) :
                fn.env[k] = HookAt(DeclaredAt[k])

\* the slots of the components other than the one whose setter is called
\* keep the values they hold
OthersCarried ==
    \A c \in (DOMAIN componentStates) \ {call'.hook.component} :
        \A i \in 1..Len(heap[componentStates[c]]) :
            heap[componentStates[c]][i] # Undefined
                => /\ c \in DOMAIN componentStates'
                   /\ componentStates'[c] = componentStates[c]
                   /\ heap'[componentStates[c]][i] = heap[componentStates[c]][i]

\* C3: the i-th useState call of a component reads slot i of that component
\* in every render pass, and a pass run by the setter of one component leaves
\* the values held in the slots of every other component as they are, so
\* these are carried across any number of such passes.  (A slot holding
\* undefined counts as not yet holding a value.)
C3_SlotsAlignedAndCarried ==
    /\ []Aligned
    /\ [][call'.op = "set" => OthersCarried]_vars

\* the Counter's setter, kept from an earlier pass, has run a pass in which
\* TodoApp was rendered with its second slot holding the filter chosen
\* before
C3_Witness ==
    /\ call.op = "set"
    /\ call.hook.component = "Counter"
    /\ call.installs = 1
    /\ "TodoApp" \in call.invoked
    /\ "TodoApp" \in DOMAIN componentStates
    /\ SlotOf(HookAt(<<"TodoApp", 1>>)) = Str("active")
    /\ \E fn \in DocumentHandlers :
            "setFilter" \in DOMAIN fn.env /\ fn.env.setFilter = HookAt(<<"TodoApp", 1>>)

\* C4: a value stored by the setter, undefined included, is still the value
\* of the slot after the render pass of that call has reached the slot's
\* useState call again; the initial value is not brought back.
C4_StoredValueOutlivesRender ==
    [][(SetterChanges /\ call'.hook.component \in call'.invoked)
            => ArrGet(heap'[call'.hook.states], call'.hook.index) = call'.value]_vars

\* the value the store holds for the slot of a hook's component and index
CurrentSlot(hook) ==
    ArrGet(heap[componentStates[hook.component]], hook.index)

\* C5: every getter useState has handed out, in this or in an earlier render
\* pass, returns what the slot of its component and index holds now; and
\* when a setter from any pass has stored a value that stays in the slot,
\* every getter of that slot returns that value.
C5_GettersReadCurrentSlot ==
    /\ [](\A g \in hooks :
            /\ g.component \in DOMAIN componentStates
            /\ getter(g, World) = CurrentSlot(g))
    /\ [][(SetterChanges /\ (call'.value # Undefined
                              \/ call'.hook.component \notin call'.invoked))
            => \A g \in hooks' :
                    (g.component = call'.hook.component
                        /\ g.index = call'.hook.index)
                    => ArrGet(heap'[g.states], g.index) = call'.value]_vars

\* a tree of an earlier pass is still in the document, with its handlers,
\* while the root is bound elsewhere; a setter has stored 1 and the getter
\* held by the earlier tree's handler returns 1
C5_Witness ==
    /\ call.op = "set"
    /\ call.value = Num(1)
    /\ call.installs = 1
    /\ rootContainer = "side"
    /\ \E fn \in HandlersIn(dom["app"]) :
            /\ "getCount" \in DOMAIN fn.env
            /\ getter(fn.env.getCount, World) = Num(1)

\* the child list after differs from the one before in one position at most
SameButOne(before, after) ==
    /\ Len(after) = Len(before)
    /\ \E i \in 1..Len(before) :
            \A j \in (1..Len(before)) \ {i} : after[j] = before[j]

\* C6: after mount (the root bound by mount alone, to an element or a
\* component), every setter call that changes a slot, the first one included,
\* puts one new root node in place: the container has as many children as
\* before, all but the one at the root node's position are the nodes they
\* were, and the other containers are untouched.
C6_ReplacedInPlace ==
    [][(SetterChanges /\ RootBound /\ globalContainer = NoContainer
            /\ rootVNode.type # "fragment" /\ ~call'.thrown)
        => /\ call'.installs = 1
           /\ SameButOne(dom[rootContainer], dom'[rootContainer])
           /\ \A c \in Containers \ {rootContainer} : dom'[c] = dom[c]]_vars

\* C7: when mount(d, c) returns, the root binding is (d, c), the children c
\* had are kept and the rendering of d comes after them, and the node
\* recorded as last produced is that rendering: the last child of c, or the
\* emptied fragment when d is a fragment.
C7_MountBindsAppendsRecords ==
    [][(call'.op = "mount" /\ ~call'.thrown)
        => /\ rootVNode' = call'.vnode
           /\ rootContainer' = call'.container
           /\ Len(dom'[call'.container]) > Len(dom[call'.container])
           /\ SubSeq(dom'[call'.container], 1, Len(dom[call'.container]))
                    = dom[call'.container]
           /\ renderedNode' = IF call'.vnode.type = "fragment" THEN Detached
                              ELSE Child(call'.container,
                                         Len(dom'[call'.container]))]_vars

\* the top-level nodes the renderer produces for a descriptor in a world
Rendering(vnode, w) ==
    Entries(renderToDOM(vnode, [w EXCEPT !.call = NoCall]).node)

\* this step is rerender(d, c): the root is bound to (d, c) and c holds the
\* rendering of d and nothing else
RerenderRendersNow ==
    /\ rootVNode' = call'.vnode
    /\ rootContainer' = call'.container
    /\ dom'[call'.container] = Rendering(call'.vnode, World)

\* this step is a setter's pass after rerender(d, c): d is rendered and c
\* holds the result, the other containers being left alone
LaterPassUnderContainer ==
    /\ call'.passes = <<globalVNode>>
    /\ dom'[globalContainer] = Rendering(globalVNode, World')
    /\ \A c \in Containers \ {globalContainer} : dom'[c] = dom[c]

\* C8: rerender(d, c) binds the root to (d, c) and leaves c holding exactly
\* the rendering of d; and every later setter call that changes a slot
\* renders d and puts the result under c.
C8_RerenderRebinds ==
    [][/\ (call'.op = "rerender" /\ ~call'.thrown) => RerenderRendersNow
       /\ (SetterChanges /\ RootBound /\ rootVNode = globalVNode
                /\ rootContainer = globalContainer /\ ~call'.thrown)
            => LaterPassUnderContainer]_vars

RECURSIVE HeadingTexts(_)
\* the texts of the h2 headings of a list of nodes and of their descendants:
\* what each rendered Counter shows as its count
HeadingTexts(nodes) ==
    IF Len(nodes) = 0 THEN {}
    ELSE (IF Head(nodes).kind # "element" THEN {}
          ELSE IF Head(nodes).tag = "h2"
          THEN {Head(nodes).children[i].text :
                    i \in {j \in 1..Len(Head(nodes).children) :
                                Head(nodes).children[j].kind = "text"}}
          ELSE HeadingTexts(Head(nodes).children))
         \cup HeadingTexts(Tail(nodes))

\* the getters of the Counter's slot held by the handlers of the document
CountGetters ==
    {fn.env.getCount : fn \in {f \in DocumentHandlers : "getCount" \in DOMAIN f.env}}

\* C9: the occurrences of one component function share one list of slots:
\* the getters and setters handed out for a component refer to one array,
\* the occurrences rendered in one pass show one value, and a value stored
\* through the setter of one occurrence is what the getter of every
\* occurrence returns.
C9_OccurrencesShareSlots ==
    /\ [](/\ \A g \in hooks : \A h \in hooks :
                    g.component = h.component => g.states = h.states
           /\ \A c \in Containers : \A i \in 1..Len(dom[c]) :
                    Cardinality(HeadingTexts(<<dom[c][i]>>)) <= 1)
    /\ [][(SetterChanges /\ call'.hook.component = "Counter"
                /\ call'.value # Undefined)
            => \A g \in CountGetters' :
                    ArrGet(heap'[g.states], g.index) = call'.value]_vars

\* two Counters are rendered under one element after a setter stored 1, and
\* both show 1
C9_Witness ==
    /\ call.op = "set"
    /\ call.value = Num(1)
    /\ \E c \in Containers : \E i \in 1..Len(dom[c]) :
            /\ dom[c][i].kind = "element"
            /\ Len(dom[c][i].children) = 2
            /\ \A j \in 1..2 : dom[c][i].children[j].className = "counter"
            /\ HeadingTexts(<<dom[c][i]>>) = {"Count: 1"}

\* this step is a call of the setter of slot i (counted from 1) of c
OwnSetter(c, i) ==
    call'.op = "set" /\ call'.hook.component = c /\ call'.hook.index = i - 1

\* C10: in every call of mount, rerender, the renderer or a setter, each
\* component in the store stays in it with the array it had, the array gets
\* no shorter, and a slot of a component that the call does not render, or
\* that holds a value, changes only when its own setter is the one called;
\* so the Counter's count is found again after a visit to another tab.
C10_SlotListsPersist ==
    [][\A c \in DOMAIN componentStates :
        /\ c \in DOMAIN componentStates'
        /\ componentStates'[c] = componentStates[c]
        /\ Len(heap'[componentStates[c]]) >= Len(heap[componentStates[c]])
        /\ \A i \in 1..Len(heap[componentStates[c]]) :
                (c \notin call'.invoked \/ heap[componentStates[c]][i] # Undefined)
                => \/ heap'[componentStates[c]][i] = heap[componentStates[c]][i]
                   \/ OwnSetter(c, i)]_vars

\* the application is back on the counter tab, by the setter of App, and the
\* Counter shows the count 1 its slot kept
C10_Witness ==
    /\ program = "main"
    /\ call.op = "set"
    /\ call.hook.component = "App"
    /\ call.value = Str("counter")
    /\ "Counter" \in call.invoked
    /\ HeadingTexts(dom["app"]) = {"Count: 1"}

\* C11: a useState call made while no component is being rendered fails
\* (the call is reported as an error) and leaves the state store as it was.
C11_OutsideRenderFails ==
    [][(call'.op = "useState" /\ currentComponent = NoComponent)
        => /\ call'.thrown
           /\ UNCHANGED <<heap, componentStates>>]_vars

\* C12: when a component calls a setter in its body and the call changes a
\* slot, with a root bound, the call is reported as a failure: no render
\* pass runs inside the pass that is under way.
C12_ReentrantSetReported ==
    [][call'.nested > 0
        => /\ call'.thrown
           /\ Len(call'.passes) <= 1]_vars

\* what one argument of createElement leaves in the children: the entries
\* of an array argument, or the argument itself, null and undefined left out
Contribution(arg) ==
    IF arg.t = "array"
    THEN SelectSeq(arg.items, LAMBDA x : x \notin {Null, Undefined})
    ELSE IF arg \in {Null, Undefined} THEN <<>> ELSE <<arg>>

RECURSIVE Concat(_)
Concat(seqs) == IF Len(seqs) = 0 THEN <<>> ELSE Head(seqs) \o Concat(Tail(seqs))

\* C13: createElement(kind, props, ...children) returns a descriptor of that
\* kind whose props is {} when props is null and props itself otherwise, and
\* whose children are the arguments in order, an array argument replaced by
\* its entries (one level only), with null and undefined left out.
C13_CreateElementNormalises ==
    call.op = "createElement"
        => /\ call.vnode.type = call.args[1]
           /\ call.vnode.props = (IF call.args[2] = Null THEN EmptyObject
                                  ELSE call.args[2])
           /\ call.vnode.children =
                Concat([i \in 1..Len(call.args[3]) |->
                            Contribution(call.args[3][i])])

\* createElement was called with null props and with text, undefined and an
\* array holding text and null: the children are the two texts
C13_Witness ==
    /\ call.op = "createElement"
    /\ call.args[2] = Null
    /\ call.args[3] = <<Str("A"), Undefined, Arr(<<Str("B"), Null>>)>>
    /\ call.vnode.props = EmptyObject
    /\ call.vnode.children = <<Str("A"), Str("B")>>

\* C14: a component rendered from createElement(Component, props,
\* ...children) receives the children as props.children: the Container of
\* the tests, which puts props.children in a div, renders to a div holding
\* the rendering of every child passed, in order.
C14_ChildrenReachComponent ==
    (call.op = "renderTest" /\ call.vnode.type = "Container")
        => /\ call.result.kind = "element"
           /\ call.result.children =
                [i \in 1..Len(call.vnode.children) |->
                    TextNode(ToStr(call.vnode.children[i]))]


\* the law for one key of the descriptor rendered by a test
PresentWhenTrue(k) ==
    call.vnode.props[k] = Bool(TRUE)
        => /\ call.result.kind = "element"
           /\ hasAttribute(call.result, k)
           /\ getAttribute(call.result, k) = Str("")
AbsentWhenOff(k) ==
    call.vnode.props[k] \in {Bool(FALSE), Null, Undefined}
        => /\ call.result.kind = "element"
           /\ ~hasAttribute(call.result, k)
HostTest ==
    /\ call.op = "renderTest"
    /\ call.vnode.type \notin Components \cup {"fragment"}

OwnWayWhenTrue(tag, k) ==
    \/ k \in ReservedKeys \cup {"className", "style", "value", "checked"}
    \/ StartsWith(k, "on")
    \/ k = "disabled" /\ tag \notin DisabledTags
OwnWayWhenOff(tag, k, value) ==
    \/ k = "value" /\ tag \in ValueTags
    \/ k = "style" /\ value = Null

C16_RefCalled ==
    (HostTest /\ PropGet(call.vnode.props, "ref").t = "function")
        => \E i \in 1..Len(call.callbacks) :
              /\ call.callbacks[i].fn = call.vnode.props["ref"]
              /\ call.callbacks[i].node = call.result


\* the host descriptors with a callable _onMounted in a tree of host
\* descriptors and texts, children before their parent, each with its path
RECURSIVE MountedDescs(_, _), MountedBelow(_, _, _)
MountedBelow(children, path, i) ==
    IF i > Len(children) THEN <<>>
    ELSE MountedDescs(children[i], Append(path, i))
            \o MountedBelow(children, path, i + 1)
MountedDescs(vnode, path) ==
    IF vnode.t # "vnode" THEN <<>>
    ELSE MountedBelow(vnode.children, path, 1)
            \o (IF PropGet(vnode.props, "_onMounted").t = "function"
                THEN <<[path |-> path, fn |-> vnode.props["_onMounted"]]>>
                ELSE <<>>)

\* only host tags and texts
RECURSIVE HostOnly(_)
HostOnly(vnode) ==
    \/ vnode.t \in {"string", "number"}
    \/ /\ vnode.t = "vnode"
       /\ vnode.type \notin Components \cup {"fragment"}
       /\ \A i \in 1..Len(vnode.children) : HostOnly(vnode.children[i])

\* the node at a path of child positions
RECURSIVE NodeAt(_, _)
NodeAt(node, path) ==
    IF path = <<>> THEN node
    ELSE NodeAt(node.children[Head(path)], Tail(path))

\* the elements of class chart-container in a tree of nodes, children before
\* their parent
RECURSIVE ChartNodes(_), ChartNodesIn(_)
ChartNodesIn(nodes) ==
    IF nodes = <<>> THEN <<>>
    ELSE ChartNodes(Head(nodes)) \o ChartNodesIn(Tail(nodes))
ChartNodes(node) ==
    IF node.kind = "text" THEN <<>>
    ELSE ChartNodesIn(node.children)
            \o (IF node.kind = "element"
                   /\ StartsWith(node.className, "chart-container")
                THEN <<node>> ELSE <<>>)

\* C17: a render pass calls the _onMounted of each host descriptor it renders
\* exactly once, with the node created for that descriptor, all of its
\* children rendered and appended; a value that is not callable is not
\* called.  In a test's render the calls are those of the descriptor's tree,
\* children first; on the page the calls of one pass are those of the charts
\* of the tree it produced.
C17_OnMountedOncePerPass ==
    /\ (HostTest /\ HostOnly(call.vnode) /\ ~call.thrown)
        => LET expected == MountedDescs(call.vnode, <<>>)
           IN  /\ Len(call.callbacks) = Len(expected)
               /\ \A i \in 1..Len(expected) :
                    /\ call.callbacks[i].prop = "_onMounted"
                    /\ call.callbacks[i].fn = expected[i].fn
                    /\ call.callbacks[i].node
                            = NodeAt(call.result, expected[i].path)
    /\ (program = "main" /\ ~call.thrown /\ Len(call.passes) = 1)
        => /\ [i \in 1..Len(call.callbacks) |-> call.callbacks[i].node]
                = ChartNodesIn(dom[rootContainer])
           /\ \A i \in 1..Len(call.callbacks) :
                call.callbacks[i].fn.name = "drawOnMount"

C17_Witness ==
    /\ call.op = "renderTest"
    /\ call.vnode = MountedTest
    /\ Len(call.callbacks) = 3
    /\ call.callbacks[3].fn = Fn("f", <<>>)
    /\ Len(call.callbacks[3].node.children) = 3


\* a test has rendered a fragment descriptor
FragmentRendered ==
    /\ call.op = "renderTest"
    /\ call.vnode.type = "fragment"
    /\ ~call.thrown

\* the renderings of the children, one node per child
NodePerChild(children) ==
    [i \in 1..Len(children) |-> renderToDOM(children[i], World).node]

\* the top-level nodes of the renderings of the children, in order
RECURSIVE NodesOfChildren(_)
NodesOfChildren(children) ==
    IF children = <<>> THEN <<>>
    ELSE Rendering(Head(children), World) \o NodesOfChildren(Tail(children))

\* C18 (as stated): a fragment descriptor renders to a grouping node whose
\* children are the renderings of the descriptor's children, one per child,
\* in descriptor order
C18_FragmentChildPerChild ==
    FragmentRendered
        => /\ call.result.kind = "fragment"
           /\ call.result.children = NodePerChild(call.vnode.children)

\* C18 (amended): a fragment descriptor renders to a grouping node whose
\* children are the renderings of the descriptor's children in descriptor
\* order, one per child except that a child rendering to a grouping node
\* gives its own children in its place
C18_FragmentChildrenInOrder ==
    FragmentRendered
        => /\ call.result.kind = "fragment"
           /\ call.result.children = NodesOfChildren(call.vnode.children)
           /\ call.vnode = FragmentTest
                => call.result.children
                        = <<TextNode("A"), TextNode("B"), TextNode("C")>>

C18_Witness ==
    /\ FragmentRendered
    /\ call.vnode.children
            = <<createFragment(Null, <<Str("B"), Str("C")>>), Str("A")>>
    /\ call.result.children = <<TextNode("B"), TextNode("C"), TextNode("A")>>


\* the Counters among a list of nodes and their descendants, in document
\* order: for each its initialCount, the closure of its handlers and the
\* text of its heading
RECURSIVE Counters(_)
Counters(nodes) ==
    IF nodes = <<>> THEN <<>>
    ELSE LET node == Head(nodes)
         IN  (IF node.kind = "text" THEN <<>>
              ELSE IF node.kind = "element" /\ node.className = "counter"
              THEN LET onKeyDown == CHOOSE l \in node.listeners : l[1] = "keydown"
                   IN  <<[env |-> onKeyDown[2].env,
                          c |-> onKeyDown[2].env.initialCount,
                          shown |-> node.children[1].children[1].text]>>
              ELSE Counters(node.children))
             \o Counters(Tail(nodes))

\* "Count: n"
CountText(n) == "Count: " \o ToStr(Num(n))

\* this step is the named handler of the Counter of closure env, which
\* showed n before
Handles(name, env, n) ==
    /\ call'.op = "set"
    /\ call'.handler = name
    /\ rootContainer # NoContainer
    /\ \E i \in 1..Len(Counters(dom[rootContainer])) :
            /\ Counters(dom[rootContainer])[i].env = env
            /\ Counters(dom[rootContainer])[i].shown = CountText(n)

\* after this step every Counter of closure env shows text
ShowsNext(env, text) ==
    /\ \E i \in 1..Len(Counters(dom'[rootContainer'])) :
            Counters(dom'[rootContainer'])[i].env = env
    /\ \A i \in 1..Len(Counters(dom'[rootContainer'])) :
            Counters(dom'[rootContainer'])[i].env = env
                => Counters(dom'[rootContainer'])[i].shown = text

\* a handler of the Counter moves what it shows by one up, by one down, or
\* back to its initialCount: by induction, c + i - d since the last reset
HandlerSteps ==
    \A fn \in CounterHandlers : \A n \in (-MaxDown - 1)..(MaxUp + 1) :
        /\ Handles("increment", fn.env, n) => ShowsNext(fn.env, CountText(n + 1))
        /\ Handles("decrement", fn.env, n) => ShowsNext(fn.env, CountText(n - 1))
        /\ Handles("reset", fn.env, n)
                => ShowsNext(fn.env, "Count: " \o ToStr(fn.env.initialCount))

\* this step is mount(d, c): the nodes it has put under c
Mounted ==
    SubSeq(dom'[call'.container], Len(dom[call'.container]) + 1,
           Len(dom'[call'.container]))

\* C19 (as stated): every mounted Counter shows its initialCount c when
\* mounted, then c + i - d after i increments and d decrements through its
\* handlers since the last reset or the mount, and c again after reset
C19_CounterShowsOwnCount ==
    /\ [][(call'.op = "mount" /\ ~call'.thrown)
            => \A i \in 1..Len(Counters(Mounted)) :
                    Counters(Mounted)[i].shown
                        = "Count: " \o ToStr(Counters(Mounted)[i].c)]_vars
    /\ [][HandlerSteps]_vars

\* this step renders a Counter for the first time and leaves one Counter in
\* the document under the root
FirstAndOnly ==
    /\ "Counter" \notin DOMAIN componentStates
    /\ "Counter" \in DOMAIN componentStates'
    /\ ~call'.thrown
    /\ rootContainer' # NoContainer
    /\ Len(Counters(dom'[rootContainer'])) = 1

\* C19 (amended): a Counter with initialCount c that is the only Counter
\* rendered, no Counter rendered before it, shows c when first rendered; from
\* then on each increment through its handlers moves what it shows one up,
\* each decrement one down, and reset brings it back to c (c + i - d since
\* the last reset or the first rendering); from 0, three increments in a row
\* give "Count: 3"
C19_OnlyCounterShowsCount ==
    /\ [][FirstAndOnly
            => Counters(dom'[rootContainer'])[1].shown
                    = "Count: " \o ToStr(Counters(dom'[rootContainer'])[1].c)]_vars
    /\ [][HandlerSteps]_vars

C19_Witness ==
    /\ program = "main"
    /\ call.op = "set"
    /\ call.handler = "increment"
    /\ call.value = Num(3)
    /\ Len(call.passes) = 1
    /\ Counters(dom[rootContainer])
            = <<[env |-> [getCount |-> call.hook, setCount |-> call.hook,
                          initialCount |-> Num(0)],
                 c |-> Num(0), shown |-> "Count: 3"]>>


\* the number of useState calls in the body of a component
UseStateCalls(component) ==
    CASE component \in {"App", "Counter", "AddTodoForm"} -> 1
      [] component = "Eager" -> 2
      [] component \in {"TodoApp", "Dashboard"} -> 3
      [] OTHER -> 0

\* C20: the k-th useState call of an invocation of a component by the
\* renderer uses slot k of that component's own slot list, also when a setter
\* called in the body has run a nested re-render: every getter/setter pair a
\* mount or a setter's re-render hands out belongs to a component it invoked,
\* refers to that component's list and has the position of a useState call
\* of its body.
C20_SlotIsCallPosition ==
    [][(call'.op \in {"mount", "set"} /\ ~call'.thrown)
        => \A h \in hooks' \ hooks :
              /\ h.component \in call'.invoked
              /\ h.states = componentStates'[h.component]
              /\ h.index < UseStateCalls(h.component)]_vars


\* C21: whenever no component function is executing (a call into the runtime
\* has returned or failed), the render cursor names no component.
C21_CursorCleared == currentComponent = NoComponent


\* this step of the call is a setter's write made while a pass is under way
SetDuringPass(i) == call.trace[i].ev = "set" /\ call.trace[i].depth >= 1

\* the pass started at step i is done at step j, and every step between the
\* two belongs to it or to a pass it contains
RunsToCompletion(i, j) ==
    /\ call.trace[j] = [ev |-> "installed", depth |-> call.trace[i].depth]
    /\ \A k \in i..j : call.trace[k].depth >= call.trace[i].depth

\* C22: a setter call that changes a slot while a render pass is under way
\* starts a render pass at once, and that pass produces and installs its node
\* before the outer pass takes its next step.
C22_NestedPassRunsFirst ==
    ~call.thrown
        => \A i \in 1..Len(call.trace) :
              SetDuringPass(i)
                => /\ i < Len(call.trace)
                   /\ call.trace[i + 1]
                        = [ev |-> "pass", depth |-> call.trace[i].depth + 1]
                   /\ \E j \in (i + 2)..Len(call.trace) :
                        /\ RunsToCompletion(i + 1, j)
                        /\ j < Len(call.trace)
                        /\ call.trace[j + 1].depth = call.trace[i].depth

\* Eager is mounted: its setter call runs a whole pass, and only then does
\* the body go on to its second useState call
C22_Witness ==
    /\ call.op = "mount"
    /\ call.vnode = EagerRoot
    /\ call.trace = <<[ev |-> "pass", depth |-> 1],
                      [ev |-> "invoke", depth |-> 1],
                      [ev |-> "useState", depth |-> 1],
                      [ev |-> "set", depth |-> 1],
                      [ev |-> "pass", depth |-> 2],
                      [ev |-> "invoke", depth |-> 2],
                      [ev |-> "useState", depth |-> 2],
                      [ev |-> "useState", depth |-> 2],
                      [ev |-> "installed", depth |-> 2],
                      [ev |-> "useState", depth |-> 1],
                      [ev |-> "attached", depth |-> 1]>>


\* C23: with an element (or component) root bound by mount or rerender, the
\* node recorded as last produced is a child of the root container; and a
\* setter's re-render changes no other container and leaves the root
\* container holding the rendering of the root.
C23_LastNodeUnderRootContainer ==
    /\ []((RootBound /\ rootVNode.type # "fragment" /\ ~call.thrown)
            => /\ renderedNode.at = "child"
               /\ renderedNode.container = rootContainer)
    /\ [][(SetterChanges /\ RootBound /\ rootVNode.type # "fragment"
                /\ ~call'.thrown)
            => /\ \A c \in Containers \ {rootContainer} : dom'[c] = dom[c]
               /\ \E i \in 1..Len(dom'[rootContainer]) :
                    <<dom'[rootContainer][i]>> = Rendering(rootVNode, World')]_vars


\* C24: with a root bound by mount, when a setter call that changes a slot
\* has returned, the root container holds exactly the rendering of the root
\* descriptor against the slots as they are now, also when a component body
\* called a setter during the pass.
C24_DisplayMatchesState ==
    [][(SetterChanges /\ RootBound /\ globalContainer = NoContainer
            /\ ~call'.thrown)
        => dom'[rootContainer] = Rendering(rootVNode, World')]_vars


\* C25: while no root is recorded, a setter called with a value other than
\* its slot's stores the value and does nothing else: no render pass, no
\* native node, no container changed, the other slots and the root binding
\* as they were.
C25_SetterWithoutRoot ==
    [][(SetterChanges /\ ~RootBound)
        => /\ ArrGet(heap'[call'.hook.states], call'.hook.index) = call'.value
           /\ \A a \in 1..Len(heap) : \A i \in 0..(Len(heap[a]) - 1) :
                (a # call'.hook.states \/ i # call'.hook.index)
                    => ArrGet(heap'[a], i) = ArrGet(heap[a], i)
           /\ call'.passes = <<>>
           /\ call'.created = 0
           /\ ~call'.thrown
           /\ UNCHANGED <<dom, componentStates, rootVNode, rootContainer,
                          renderedNode, hooks>>]_vars

\* the Counter rendered by a bare renderToDOM call has its slot set from 0
\* to 1, nothing being mounted
C25_Witness ==
    /\ call.op = "set"
    /\ ~RootBound
    /\ call.hook.component = "Counter"
    /\ call.value = Num(1)
    /\ call.trace = <<[ev |-> "set", depth |-> 0]>>
    /\ SlotOf(call.hook) = Num(1)
    /\ dom = [c \in Containers |-> IF c = "side" THEN <<StaticNode>> ELSE <<>>]

\* C28: after any sequence of simulateUpdate calls every chart holds at most
\* ten points and every value is an integer that is not negative; a call for
\* a category that exists puts exactly one point behind the others, the
\* oldest one dropped first when the chart held ten, and leaves the other
\* charts alone; a call for an unknown category returns null and changes no
\* chart
ChartsInRange ==
    \A i \in 1..Len(data) :
        /\ Len(data[i].data) <= 10
        /\ \A j \in 1..Len(data[i].data) : data[i].data[j].value \in Nat

OnePointAppended(i) ==
    LET before == data[i].data
        after == data'[i].data
        kept == IF Len(before) >= 10 THEN Tail(before) ELSE before
    IN  /\ Len(after) = Len(kept) + 1
        /\ SubSeq(after, 1, Len(kept)) = kept
        /\ call'.result = Obj(after[Len(after)])
        /\ \A j \in 1..Len(data) : j # i => data'[j] = data[j]
        /\ data'[i] = [data[i] EXCEPT !.data = after]

C28_SimulateUpdateKeepsCharts ==
    /\ []ChartsInRange
    /\ [][call'.op = "simulateUpdate" =>
            LET known == {i \in 1..Len(data) :
                            Str(data[i].category) = call'.value}
            IN  IF known = {}
                THEN call'.result = Null /\ data' = data
                ELSE \E i \in known : OnePointAppended(i)]_vars

\* a chart that held ten points has been updated, a value has been held at
\* zero, and the last call named an unknown category
C28_Witness ==
    /\ call.op = "simulateUpdate"
    /\ call.value = Str("unknown")
    /\ \E i \in 1..Len(data) :
        /\ Len(data[i].data) = 10
        /\ data[i].data[1] # generateMockData[i].data[1]
    /\ \E i \in 1..Len(data) :
        \E j \in 1..Len(data[i].data) : data[i].data[j].value = 0

\* the value of slot i of the Dashboard, undefined before its first render
DashboardSlot(i) ==
    LET pairs == {h \in hooks : h.component = "Dashboard" /\ h.index = i}
    IN  IF pairs = {} THEN Undefined
        ELSE getter(CHOOSE h \in pairs : TRUE, World)

\* C26: while auto-update is on, at most one auto-update timer is pending,
\* whatever re-renders occur
C26_OneTimerPending == DashboardSlot(1) = Bool(TRUE) => timers <= 1

\* C27: while the auto-update slot of the Dashboard is false and stays
\* false, simulateUpdate is not called (no chart changes) and the update
\* counter slot does not change
C27_StoppedMeansNoUpdates ==
    [][(DashboardSlot(1) = Bool(FALSE) /\ DashboardSlot(1)' = Bool(FALSE))
          => /\ data' = data
             /\ DashboardSlot(2)' = DashboardSlot(2)
             /\ call'.op # "timer"]_vars

\* the todos of the list have pairwise distinct ids
DistinctIds ==
    \A i, j \in 1..Len(Todos) :
        i # j => Todos[i].fields.id # Todos[j].fields.id

\* the positions at which list after differs from list before
Changed(before, after) ==
    {i \in 1..Len(before) : after[i] # before[i]}

\* list after is list before without the item at one position
OneRemoved(before, after) ==
    \E k \in 1..Len(before) :
        after = SubSeq(before, 1, k - 1) \o SubSeq(before, k + 1, Len(before))

\* C29: after any sequence of add, toggle, delete and clear-completed
\* operations the todos have pairwise distinct ids; toggling an item
\* changes exactly that todo and deleting an item removes exactly that
\* todo, every other todo left as it was
C29_TodoIdsDistinct ==
    /\ []DistinctIds
    /\ [][(call'.op = "todo" /\ call'.handler = "onToggle(todo.id)")
            => /\ Len(Todos') = Len(Todos)
               /\ \E k \in 1..Len(Todos) :
                    /\ Changed(Todos, Todos') = {k}
                    /\ Todos[k].fields.id = call'.value]_vars
    /\ [][(call'.op = "todo" /\ call'.handler = "onDelete(todo.id)")
            => /\ OneRemoved(Todos, Todos')
               /\ \A i \in 1..Len(Todos') :
                    Todos'[i].fields.id # call'.value]_vars

\* C30: renderToDOM of a descriptor whose kind is Modal, Card or Select
\* returns a node, a closed Modal included
C30_LibraryAlwaysRenders ==
    (call.op = "renderTest" /\ call.vnode.type \in {"Modal", "Card", "Select"})
        => ~call.thrown /\ call.result.kind # "thrown"
====
